---------------------------- MODULE Spec2Model ----------------------------
(***************************************************************************)
(* A model of csv-researcher: the agent state tracker (react-state.ts),    *)
(* the tool layer (react-tools.ts), the run entry points (react-agent.ts,  *)
(* enhanced-react-agent.ts), the storage wrapper (database.ts), the chat   *)
(* history store (chat-history.ts), the chat, history, upload and dataset  *)
(* delete routes, and the column normalization, type inference and value   *)
(* conversion of ingestion.                                                *)
(*                                                                         *)
(* Texts that the code inspects are sequences of characters, so that       *)
(* toLowerCase, trim, startsWith and includes are computed as the code     *)
(* computes them.  The Korean literals of the source are written           *)
(* in romanised ASCII: "oryu" for the error marker U+C624 U+B958, "silpae"  *)
(* for the failure marker U+C2E4 U+D328, and so on; each definition names  *)
(* the literal it stands for.                                              *)
(***************************************************************************)
EXTENDS Integers, Sequences, FiniteSets, TLC

VARIABLES
    globalReActState,            \* react-state.ts: the module-level tracker
    globalReasoningCallback,     \* react-state.ts: the module-level callback
    enhancedReasoningCallback,   \* enhanced-react-agent.ts: its own module-level callback
    files,                       \* storage: ids with a row in the registry table
    tables,                      \* storage: isolated tables, name -> number of rows
    chat_history,                \* storage: the history table, a sequence of turns
    lastCall,                    \* the last tool call: its input, what it gave storage, its result
    runs,                        \* the orchestration runs in flight, per run
    delivered,                   \* per callback, the progress messages it has received
    lastRequest,                 \* the last route request answered and its response
    pending,                     \* per dataset id, the delete requests suspended mid-way
    reader,                      \* a client paging through the history of a dataset
    stream,                      \* the chat request being served and its output stream
    calc                         \* an ingestion computation: its input and its result

vars == <<globalReActState, globalReasoningCallback, enhancedReasoningCallback,
          files, tables, chat_history, lastCall, runs, delivered, lastRequest,
          pending, reader, stream, calc>>

-----------------------------------------------------------------------------
(* Text: a text is the sequence of its characters, and the methods of       *)
(* String.prototype are computed on it.                                     *)

\* The text of a string literal
Chars(str) == [i \in 1..Len(str) |-> SubSeq(str, i, i)]

UpperChars == Chars("ABCDEFGHIJKLMNOPQRSTUVWXYZ")

LowerChars == Chars("abcdefghijklmnopqrstuvwxyz")

LowerChar(c) ==
    IF \E i \in 1..Len(UpperChars) : UpperChars[i] = c
    THEN LowerChars[CHOOSE i \in 1..Len(UpperChars) : UpperChars[i] = c]
    ELSE c

UpperChar(c) ==
    IF \E i \in 1..Len(LowerChars) : LowerChars[i] = c
    THEN UpperChars[CHOOSE i \in 1..Len(LowerChars) : LowerChars[i] = c]
    ELSE c

toLowerCase(s) == [i \in 1..Len(s) |-> LowerChar(s[i])]

toUpperCase(s) == [i \in 1..Len(s) |-> UpperChar(s[i])]

Least(S) == CHOOSE i \in S : \A j \in S : i <= j

Greatest(S) == CHOOSE i \in S : \A j \in S : i >= j

\* s.trim(); the only white space of the texts of this model is the space
trim(s) ==
    LET inked == {i \in 1..Len(s) : s[i] # " "}
    IN  IF inked = {} THEN <<>> ELSE SubSeq(s, Least(inked), Greatest(inked))

startsWith(s, t) == Len(s) >= Len(t) /\ SubSeq(s, 1, Len(t)) = t

includes(s, t) ==
    \E i \in 1..(Len(s) - Len(t) + 1) : SubSeq(s, i, i + Len(t) - 1) = t

\* s.replace(/;+$/, ''): the trailing run of semicolons removed
stripSemicolons(s) ==
    LET kept == {i \in 1..Len(s) : s[i] # ";"}
    IN  IF kept = {} THEN <<>> ELSE SubSeq(s, 1, Greatest(kept))

\* The string of a short text
RECURSIVE Str(_)
Str(s) == IF s = <<>> THEN "" ELSE Head(s) \o Str(Tail(s))

\* s.split(' ')[0]: the text before the first space
firstToken(s) ==
    LET spaces == {i \in 1..Len(s) : s[i] = " "}
    IN  IF spaces = {} THEN s ELSE SubSeq(s, 1, Least(spaces) - 1)

Min(a, b) == IF a < b THEN a ELSE b

Range(s) == {s[i] : i \in DOMAIN s}

Digits == Range(Chars("0123456789"))

\* \d and \w of a regular expression without the unicode flag
IsDigit(c) == c \in Digits

IsWordChar(c) == IsDigit(c) \/ c \in Range(UpperChars) \/ c \in Range(LowerChars) \/ c = "_"

\* The characters of s at the positions K, in order
Keep(s, K) ==
    [k \in 1..Cardinality(K) |->
        s[CHOOSE i \in K : Cardinality({j \in K : j < i}) = k - 1]]

\* s.replace(/X+/g, to): every run of characters of the class In becomes one to
replaceRuns(s, In(_), to) ==
    LET heads == {i \in 1..Len(s) : ~(In(s[i]) /\ i > 1 /\ In(s[i - 1]))}
        kept == Keep([i \in 1..Len(s) |-> i], heads)
    IN  [k \in 1..Len(kept) |-> IF In(s[kept[k]]) THEN to ELSE s[kept[k]]]

\* s.replace(/^X+|X+$/g, ''): the leading and the trailing run of c removed
stripEnds(s, c) ==
    LET inner == {i \in 1..Len(s) : s[i] # c}
    IN  IF inner = {} THEN <<>> ELSE SubSeq(s, Least(inner), Greatest(inner))


\* An optional value (a parameter that may be absent, a field that may be undefined)
None == <<>>

Some(v) == <<v>>

-----------------------------------------------------------------------------
(* Bounds of the model. *)

MaxRows == 5000            \* rows of the largest isolated table

MaxObservations == 1       \* tool calls stop growing the observation list here

MaxErrors == 3             \* tool calls stop growing the error count here

MaxTurns == 2              \* conversation turns held by the history table

MaxPending == 1            \* delete requests of one dataset in flight together

MaxToolCalls == 2          \* tool calls of one run while two runs overlap

MaxClock == 1              \* seconds the clock advances over a behaviour

MaxPageSize == 2           \* largest page size a reader asks for

MaxReasoning == 2          \* reasoning messages a run hands to its callback

MaxColumns == 3            \* columns of an uploaded file

MaxValues == 3             \* cells of a short column of an uploaded file

-----------------------------------------------------------------------------
(* react-state.ts: ReActStateManager, as functions of the tracker value. *)

InitialReActState ==
    [currentPlan |-> <<>>, completedActions |-> <<>>, observations |-> <<>>,
     currentThought |-> "", needsReplan |-> FALSE, errorCount |-> 0, apiCallCount |-> 0]

resetState == InitialReActState

SeqIncludes(seq, x) == \E i \in 1..Len(seq) : seq[i] = x

setPlan(st, plan) ==
    [st EXCEPT !.currentPlan = plan, !.completedActions = <<>>, !.observations = <<>>,
               !.needsReplan = FALSE, !.errorCount = 0]

addCompletedAction(st, action) ==
    IF SeqIncludes(st.completedActions, action) THEN st
    ELSE [st EXCEPT !.completedActions = Append(@, action)]

addObservation(st, observation) == [st EXCEPT !.observations = Append(@, observation)]

setCurrentThought(st, thought) == [st EXCEPT !.currentThought = thought]

setNeedsReplan(st, needsReplan) == [st EXCEPT !.needsReplan = needsReplan]

incrementErrorCount(st) == [st EXCEPT !.errorCount = @ + 1]

incrementApiCallCount(st) == [st EXCEPT !.apiCallCount = @ + 1]

\* Math.round(x) for x >= 0 given as the fraction num/den: floor(x + 1/2)
MathRound(num, den) == (2 * num + den) \div (2 * den)

getProgress(st) ==
    LET totalSteps == Len(st.currentPlan)
        completedSteps == Len(st.completedActions)
    IN  IF totalSteps > 0 THEN MathRound(completedSteps * 100, totalSteps) ELSE 0

getRemainingPlan(st) ==
    SelectSeq(st.currentPlan, LAMBDA step : ~SeqIncludes(st.completedActions, step))

shouldReplan(st) == st.errorCount > 2 \/ st.needsReplan

\* callReasoningCallback(reasoning, prefix): the messages handed to the registered
\* callback.  A message is recorded by the reasoning it carries and its prefix; the
\* vocabulary scrub of convertToUserFriendlyMessage rewrites the text and decides
\* nothing here.  `callback` is None (undefined) or Some(id).
callReasoningCallback(callback, reasoning, prefix) ==
    IF callback # None /\ reasoning # ""
    THEN <<[to |-> callback[1], reasoning |-> reasoning, prefix |-> prefix]>>
    ELSE <<>>

-----------------------------------------------------------------------------
(* Storage: database.ts (DatabaseManager over better-sqlite3).                *)

DatasetIds == {"x", "y"}

TableName(fileId) == "data_" \o fileId

TableExists(name) == name \in DOMAIN tables

\* Rows of a relation: an isolated table, the registry table or the history table
RelRows(name) ==
    IF name = "files" THEN Cardinality(files)
    ELSE IF name = "chat_history" THEN Len(chat_history)
    ELSE tables[name].rows

RelExists(name) == name \in {"files", "chat_history"} \/ TableExists(name)

RECURSIVE JoinRows(_)
JoinRows(reads) ==
    IF reads = <<>> THEN 1 ELSE RelRows(Head(reads)) * JoinRows(Tail(reads))

\* The queries the reasoning capability may send, each with what the engine makes of
\* it: the relations it reads (in FROM order), its own LIMIT if it has one, whether it
\* returns data (a SELECT) and whether it compiles against the table's columns.
SqlCatalogue ==
    { [text |-> "SELECT * FROM data_x",             reads |-> <<"data_x">>, cap |-> None,
       reader |-> TRUE, valid |-> TRUE],
      [text |-> "  select * from DATA_X;; ",        reads |-> <<"data_x">>, cap |-> None,
       reader |-> TRUE, valid |-> TRUE],
      [text |-> "SELECT * FROM data_x LIMIT 5",     reads |-> <<"data_x">>, cap |-> Some(5),
       reader |-> TRUE, valid |-> TRUE],
      [text |-> "SELECT credit_limit FROM data_x",  reads |-> <<"data_x">>, cap |-> None,
       reader |-> TRUE, valid |-> TRUE],
      [text |-> "SELECT nocol FROM data_x",         reads |-> <<"data_x">>, cap |-> None,
       reader |-> TRUE, valid |-> FALSE],
      [text |-> "SELECT * FROM data_y",             reads |-> <<"data_y">>, cap |-> None,
       reader |-> TRUE, valid |-> TRUE],
      [text |-> "SELECT * FROM data_x, files",      reads |-> <<"data_x", "files">>, cap |-> None,
       reader |-> TRUE, valid |-> TRUE],
      [text |-> "SELECT 'data_x' FROM chat_history", reads |-> <<"chat_history">>, cap |-> None,
       reader |-> TRUE, valid |-> TRUE],
      [text |-> "SELECT * FROM files",              reads |-> <<"files">>, cap |-> None,
       reader |-> TRUE, valid |-> TRUE],
      [text |-> "SELECT median(a) FROM data_x",     reads |-> <<"data_x">>, cap |-> None,
       reader |-> TRUE, valid |-> FALSE],
      [text |-> "DELETE FROM data_x",               reads |-> <<>>, cap |-> None,
       reader |-> FALSE, valid |-> TRUE],
      [text |-> "DELETE FROM data_x WHERE 1 IN (SELECT 1)", reads |-> <<>>, cap |-> None,
       reader |-> FALSE, valid |-> TRUE] }

QueryRowCap == 1000

AppendedCap == " LIMIT 1000"

\* The statement text an entry of the catalogue is executed as, without and with the
\* appended cap (statement separators at the end are not part of the statement)
ExecutableText == [e \in SqlCatalogue |-> Str(stripSemicolons(trim(Chars(e.text))))]

Executable(e) == ExecutableText[e]

Matches(e, sql) == sql = Executable(e) \/ sql = Executable(e) \o AppendedCap

PragmaTableInfo(tableName) == "PRAGMA table_info(\"" \o tableName \o "\")"

SampleSelect(tableName) == "SELECT * FROM \"" \o tableName \o "\" LIMIT ?"

DbFailure(error) == [success |-> FALSE, data |-> None, error |-> Some(error)]

DbRows(n) == [success |-> TRUE, data |-> Some(n), error |-> None]

\* SQLite's LIMIT n: a negative n is no limit
LimitRows(rows, n) == IF n < 0 THEN rows ELSE Min(rows, n)

\* db.select(query, params): prepare(query).all(...params), the rows counted.  io is
\* FALSE when the engine fails for a reason of its own (busy, I/O).
dbSelect(stmt, io) ==
    IF ~io THEN DbFailure("engine error")
    ELSE IF \E id \in DatasetIds : stmt.sql = PragmaTableInfo(TableName(id))
    THEN LET id == CHOOSE id \in DatasetIds : stmt.sql = PragmaTableInfo(TableName(id))
         IN  \* table_info of a table that does not exist is an empty result, not an error
             DbRows(IF TableExists(TableName(id)) THEN tables[TableName(id)].cols ELSE 0)
    ELSE IF \E id \in DatasetIds : stmt.sql = SampleSelect(TableName(id))
    THEN LET id == CHOOSE id \in DatasetIds : stmt.sql = SampleSelect(TableName(id))
         IN  IF ~TableExists(TableName(id)) THEN DbFailure("no such table")
             ELSE DbRows(LimitRows(tables[TableName(id)].rows, stmt.params[1]))
    ELSE IF \E e \in SqlCatalogue : Matches(e, stmt.sql)
    THEN LET e == CHOOSE e \in SqlCatalogue : Matches(e, stmt.sql)
             appended == stmt.sql # Executable(e)
         IN  IF ~e.reader THEN DbFailure("This statement does not return data")
             ELSE IF ~e.valid \/ (appended /\ e.cap # None) THEN DbFailure("SQL error")
             ELSE IF \E i \in 1..Len(e.reads) : ~RelExists(e.reads[i])
             THEN DbFailure("no such table")
             ELSE DbRows(IF appended THEN LimitRows(JoinRows(e.reads), QueryRowCap)
                         ELSE IF e.cap # None THEN LimitRows(JoinRows(e.reads), e.cap[1])
                         ELSE JoinRows(e.reads))
    ELSE DbFailure("syntax error")

-----------------------------------------------------------------------------
(* The inputs the reasoning capability and the callers are drawn from.        *)

Reasoning == "why"

OptReasonings == {None, Some(Reasoning)}

Questions == {"sales bunpo", "monthly gaeseon and teurendeu"}

RECURSIVE Repeat(_, _)
Repeat(s, n) == IF n = 0 THEN "" ELSE s \o Repeat(s, n - 1)

\* A narrative of 200 characters or more that carries every positive signal of the
\* reflection for the question "sales bunpo"
LongNarrative == "sales deiteo insaiteu gyeollon " \o Repeat("0123456789", 20)

ResultTexts ==
    { "oryu",                              \* an error marker alone
      "deiteo",                            \* data, too short
      LongNarrative,                       \* adequate
      LongNarrative \o " silpae",          \* adequate in every other signal, and a failure marker
      LongNarrative \o " ERROR",           \* the same with the third error marker
      "gyeollon " \o Repeat("0123456789", 20) }   \* long, concluded, no data

TrackActions == {"analyse data structure and schema", "something not in the plan"}

TrackResults == {"done", "silpae"}

FindingLists ==
    { <<>>,
      <<"juyo tonggye 3 gae", "gyeollon bunseok">>,
      [i \in 1..11 |-> "tonggye bunseok"] }

SampleLimits == {None, Some(0), Some(5), Some(51), Some(-1)}

-----------------------------------------------------------------------------
(* react-tools.ts: the tools, each as the outcome of one call.                *)
(* An outcome is [state, result, stmts, emitted]: the tracker afterwards, the *)
(* QueryResult returned, the statements handed to storage and the messages    *)
(* handed to the reasoning callback.  cbThrows says whether the registered    *)
(* callback raises when invoked, io whether the engine works.                 *)

Outcome(st, result, stmts, emitted) ==
    [state |-> st, result |-> result, stmts |-> stmts, emitted |-> emitted]

\* A QueryResult; data is the length of the data array
Success(data, rowCount, shouldReplanHint) ==
    [success |-> TRUE, data |-> Some(data), rowCount |-> rowCount, error |-> None,
     shouldReplan |-> shouldReplanHint, detail |-> None, raised |-> FALSE]

Failure(error, shouldReplanHint) ==
    [success |-> FALSE, data |-> None, rowCount |-> None, error |-> Some(error),
     shouldReplan |-> shouldReplanHint, detail |-> None, raised |-> FALSE]

\* Not a result: an exception that left the tool
Thrown(error) ==
    [success |-> FALSE, data |-> None, rowCount |-> None, error |-> Some(error),
     shouldReplan |-> None, detail |-> None, raised |-> TRUE]

ErrCallback == "callback raised"

\* stands for the message of react-tools.ts:181
ErrSelectOnly == "only SELECT queries are allowed"

\* stands for the message of react-tools.ts:197
ErrUnsupported(syntax) == "not supported by SQLite: " \o Str(toUpperCase(Chars(syntax)))

\* stands for the message of react-tools.ts:208
ErrScope(tableName) == "only the table of the current file (" \o tableName \o ") may be accessed"

sqliteIncompatible ==
    << "top ", "first ", "isnull(", "charindex(", "patindex(",
       "datediff(", "concat(", "row_number()", "over(", "pivot", "unpivot",
       "stdev(", "stddev(", "var_pop(", "var_samp(", "variance(",
       "median(", "percentile_cont(", "percentile_disc(" >>

\* Array.prototype.find: the first element that the text includes, or None
FindIncompatible(text) ==
    LET hits == {i \in 1..Len(sqliteIncompatible) :
                    includes(text, Chars(sqliteIncompatible[i]))}
    IN  IF hits = {} THEN None
        ELSE Some(sqliteIncompatible[CHOOSE i \in hits : \A j \in hits : i <= j])

\* The check of react-tools.ts:179-180 on the trimmed, lower-cased query
IsSelectQuery_mutIncludes(query) ==
    includes(toLowerCase(trim(Chars(query))), Chars("select"))

IsSelectQuery(query) == startsWith(toLowerCase(trim(Chars(query))), Chars("select"))

\* The check of react-tools.ts:204-207: the query text names the file's table
NamesOwnTable(query, fileId) ==
    LET tableName == TableName(fileId)
        queryLower == toLowerCase(Chars(query))
    IN  \/ includes(queryLower, toLowerCase(Chars(tableName)))
        \/ includes(queryLower, toLowerCase(Chars("\"" \o tableName \o "\"")))
        \/ includes(queryLower, toLowerCase(Chars("'" \o tableName \o "'")))

LimitedQuery(query) ==
    LET cleanQuery == stripSemicolons(trim(Chars(query)))
    IN  IF includes(toLowerCase(cleanQuery), Chars("limit")) THEN Str(cleanQuery)
        ELSE Str(cleanQuery) \o AppendedCap

\* The checks of react-tools.ts:179-213 are functions of the call's input alone; they
\* are tabulated once over the queries the reasoning capability may send
QueryTexts == {e.text : e \in SqlCatalogue}

QueryChecks ==
    [query \in QueryTexts |->
        [isSelect |-> IsSelectQuery(query),
         foundIncompatible |-> FindIncompatible(toLowerCase(trim(Chars(query)))),
         namesOwnTable |-> [fileId \in DatasetIds |-> NamesOwnTable(query, fileId)],
         limitedQuery |-> LimitedQuery(query)]]

\* reasoning is None or Some(text); an empty text is falsy like an absent one
Truthy(reasoning) == reasoning # None /\ reasoning[1] # ""

\* The catch block of a query tool (react-tools.ts:236-247, 299-309, 355-365), entered
\* with tracker s: the failure is counted and handed back as a result. The _mut
\* variant lets the failure leave the tool instead
ToolCatch_mutRethrow(s, error, stmts, emitted) ==
    Outcome(s, Thrown(error), stmts, emitted)

ToolCatch(s, error, stmts, emitted) ==
    LET s2 == incrementErrorCount(s)
    IN  Outcome(s2, Failure(error, Some(shouldReplan(s2))), stmts, emitted)

executeSqlTool(st, callback, query, fileId, reasoning, cbThrows, io) ==
    LET emitted == IF Truthy(reasoning)
                   THEN callReasoningCallback(callback, reasoning[1], "") ELSE <<>>
        checks == QueryChecks[query]
        found == checks.foundIncompatible
        stmt == [sql |-> checks.limitedQuery, params |-> <<>>]
        dbResult == dbSelect(stmt, io)
    IN  IF emitted # <<>> /\ cbThrows THEN ToolCatch(st, ErrCallback, <<>>, emitted)
        ELSE IF ~checks.isSelect THEN ToolCatch(st, ErrSelectOnly, <<>>, emitted)
        ELSE IF found # None THEN ToolCatch(st, ErrUnsupported(found[1]), <<>>, emitted)
        ELSE IF ~checks.namesOwnTable[fileId]
        THEN ToolCatch(st, ErrScope(TableName(fileId)), <<>>, emitted)
        ELSE IF ~dbResult.success
        THEN ToolCatch(incrementErrorCount(st), dbResult.error[1], <<stmt>>, emitted)
        ELSE Outcome(st, Success(dbResult.data[1], Some(dbResult.data[1]), None),
                     <<stmt>>, emitted)

getTableSchemaTool(st, callback, fileId, reasoning, cbThrows, io) ==
    LET emitted == IF Truthy(reasoning)
                   THEN callReasoningCallback(callback, reasoning[1], "") ELSE <<>>
        stmt == [sql |-> PragmaTableInfo(TableName(fileId)), params |-> <<>>]
        schemaResult == dbSelect(stmt, io)
    IN  IF emitted # <<>> /\ cbThrows THEN ToolCatch(st, ErrCallback, <<>>, emitted)
        ELSE IF ~schemaResult.success
        THEN ToolCatch(incrementErrorCount(st), schemaResult.error[1], <<stmt>>, emitted)
        ELSE Outcome(st, Success(schemaResult.data[1], None, None), <<stmt>>, emitted)

SampleRowCap == 50

DefaultSampleLimit == 10

SafeLimit(limit) == Min(limit, SampleRowCap)

\* limit is None (absent: the default applies) or Some(n)
getSampleDataTool(st, callback, fileId, limit, reasoning, cbThrows, io) ==
    LET emitted == IF Truthy(reasoning)
                   THEN callReasoningCallback(callback, reasoning[1], "") ELSE <<>>
        safeLimit == SafeLimit(IF limit = None THEN DefaultSampleLimit ELSE limit[1])
        stmt == [sql |-> SampleSelect(TableName(fileId)), params |-> <<safeLimit>>]
        sampleResult == dbSelect(stmt, io)
    IN  IF emitted # <<>> /\ cbThrows THEN ToolCatch(st, ErrCallback, <<>>, emitted)
        ELSE IF ~sampleResult.success
        THEN ToolCatch(incrementErrorCount(st), sampleResult.error[1], <<stmt>>, emitted)
        ELSE Outcome(st, Success(sampleResult.data[1], Some(sampleResult.data[1]), None),
                     <<stmt>>, emitted)

\* The step labels of planActionsTool, in English for the Korean of the source
StepSchema == "analyse data structure and schema"

StepsDistribution == <<"analyse distribution and frequency", "compute statistical properties">>

StepsCorrelation == <<"analyse correlation between variables", "explore association patterns">>

StepsTrend == <<"analyse trend over time", "identify patterns of change">>

StepsAnomaly == <<"detect and analyse outliers">>

StepsForecast == <<"predictive modelling and scenario analysis">>

StepsOptimization == <<"analyse optimisation options">>

StepsTrailing ==
    <<"derive key insights", "analyse business implications", "present recommendations">>

\* The trigger words of react-tools.ts:35-55, romanised: bunpo (distribution), bindo
\* (frequency), sanggwangwangye (correlation), gwangye (relation), teurendeu (trend),
\* byeonhwa (change), isang (abnormal), teugi (peculiar), yecheuk (forecast), mirae
\* (future), choejeokhwa (optimisation), gaeseon (improvement)
PlanStepsOf(question) ==
    LET questionLower == toLowerCase(Chars(question))
        When(words, steps) ==
            IF \E w \in words : includes(questionLower, Chars(w)) THEN steps ELSE <<>>
    IN  <<StepSchema>>
        \o When({"bunpo", "bindo"}, StepsDistribution)
        \o When({"sanggwangwangye", "gwangye"}, StepsCorrelation)
        \o When({"teurendeu", "byeonhwa"}, StepsTrend)
        \o When({"isang", "teugi"}, StepsAnomaly)
        \o When({"yecheuk", "mirae"}, StepsForecast)
        \o When({"choejeokhwa", "gaeseon"}, StepsOptimization)
        \o StepsTrailing

\* The plan is a function of the question alone; tabulated over the questions asked
PlanTable == [question \in Questions |-> PlanStepsOf(question)]

PlanSteps(question) == PlanTable[question]

PrefixPlan == "planning the analysis strategy"

PrefixTrack == "checking the progress"

PrefixReflect == "reviewing the results"

PrefixSummarize == "putting the findings together"

planActionsTool(st, callback, question, reasoning, cbThrows) ==
    LET emitted == callReasoningCallback(callback, reasoning, PrefixPlan)
        planSteps == PlanSteps(question)
    IN  IF emitted # <<>> /\ cbThrows
        THEN Outcome(st, Failure(ErrCallback, None), <<>>, emitted)
        ELSE Outcome(setCurrentThought(setPlan(st, planSteps), reasoning),
                     Success(Len(planSteps), None, None), <<>>, emitted)

\* The error markers of the source, romanised: oryu (error), silpae (failure)
MarkerError == "oryu"

MarkerFailure == "silpae"

\* result.includes(marker) for either marker, tabulated over the results reported
HasFailureMarker ==
    [result \in TrackResults |-> \/ includes(Chars(result), Chars(MarkerError))
                                 \/ includes(Chars(result), Chars(MarkerFailure))]

\* react-tools.ts:98-153. The _mut variant decides the replan flag from the markers
\* of the result alone
trackProgressTool_mutMarkersOnly(st, callback, currentAction, result, reasoning, cbThrows) ==
    LET emitted == callReasoningCallback(callback, reasoning, PrefixTrack)
        st1 == addObservation(addCompletedAction(st, currentAction), result)
        remainingPlan == getRemainingPlan(st1)
        progressPercentage == getProgress(st1)
        needsReplan == HasFailureMarker[result]
        st2 == setCurrentThought(setNeedsReplan(st1, needsReplan), reasoning)
    IN  IF emitted # <<>> /\ cbThrows
        THEN Outcome(incrementErrorCount(st), Failure(ErrCallback, Some(TRUE)), <<>>, emitted)
        ELSE Outcome(st2,
                     [Success(1, None, Some(needsReplan)) EXCEPT
                        !.detail = Some([completed |-> st1.completedActions,
                                         remaining |-> remainingPlan,
                                         progress |-> progressPercentage,
                                         observations |-> st1.observations])],
                     <<>>, emitted)

trackProgressTool(st, callback, currentAction, result, reasoning, cbThrows) ==
    LET emitted == callReasoningCallback(callback, reasoning, PrefixTrack)
        st1 == addObservation(addCompletedAction(st, currentAction), result)
        remainingPlan == getRemainingPlan(st1)
        progressPercentage == getProgress(st1)
        needsReplan == shouldReplan(st1) \/ HasFailureMarker[result]
        st2 == setCurrentThought(setNeedsReplan(st1, needsReplan), reasoning)
    IN  IF emitted # <<>> /\ cbThrows
        THEN Outcome(incrementErrorCount(st), Failure(ErrCallback, Some(TRUE)), <<>>, emitted)
        ELSE Outcome(st2,
                     [Success(1, None, Some(needsReplan)) EXCEPT
                        !.detail = Some([completed |-> st1.completedActions,
                                         remaining |-> remainingPlan,
                                         progress |-> progressPercentage,
                                         observations |-> st1.observations])],
                     <<>>, emitted)

ReflectMinLength == 200

\* The reflection of react-tools.ts:388-395.  Romanised markers: gaeui haeng (rows),
\* deiteo (data), hangmok (items); insaiteu (insight), paeteon (pattern), teurendeu
\* (trend); gwonjang (recommend), jean (propose), gaeseon (improve); gyeollon
\* (conclusion)
ReflectionOf(results, question) ==
    LET text == Chars(results)
        Has(word) == includes(text, Chars(word))
    IN  [hasData |-> Has("gaeui haeng") \/ Has("deiteo") \/ Has("hangmok"),
         hasError |-> Has(MarkerError) \/ Has(MarkerFailure) \/ Has("ERROR"),
         answersQuestion |-> includes(toLowerCase(text),
                                      firstToken(toLowerCase(Chars(question)))),
         hasInsights |-> Has("insaiteu") \/ Has("paeteon") \/ Has("teurendeu"),
         hasRecommendations |-> Has("gwonjang") \/ Has("jean") \/ Has("gaeseon"),
         needsMoreAnalysis |-> Len(text) < ReflectMinLength \/ ~Has("gyeollon")]

\* The reflection is a function of the call's input alone; tabulated over the inputs
ReflectionTable ==
    [results \in ResultTexts, question \in Questions |-> ReflectionOf(results, question)]

Reflection(results, question) == ReflectionTable[results, question]

\* The branch taken at react-tools.ts:400-413
ReflectBranch(reflection) ==
    IF reflection.hasError THEN "error"
    ELSE IF reflection.needsMoreAnalysis THEN "insufficient"
    ELSE IF reflection.hasData /\ reflection.answersQuestion /\ reflection.hasInsights
    THEN "adequate"
    ELSE "review"

reflectOnResultsTool(st, callback, results, question, reasoning, cbThrows) ==
    LET emitted == callReasoningCallback(callback, reasoning, PrefixReflect)
        reflection == Reflection(results, question)
        branch == ReflectBranch(reflection)
        shouldContinue == branch # "adequate"
    IN  IF emitted # <<>> /\ cbThrows
        THEN Outcome(st, Failure(ErrCallback, None), <<>>, emitted)
        ELSE Outcome(IF branch = "error" THEN setNeedsReplan(st, TRUE) ELSE st,
                     [Success(1, None, Some(shouldContinue)) EXCEPT
                        !.detail = Some([reflection |-> reflection, branch |-> branch])],
                     <<>>, emitted)

\* Array.prototype.filter(f => ...).length for "f includes one of words"
CountIncluding(findings, words) ==
    Cardinality({i \in 1..Len(findings) :
                    \E w \in words : includes(Chars(findings[i]), Chars(w))})

MaxQualityScore == 100

\* Romanised keywords of react-tools.ts:458-472: jungyo, juyo, haeksim (important,
\* main, key), insaiteu, balgyeon (finding); gae, geon (counters), jeungga, gamso
\* (increase, decrease), biyul (ratio); gyeollon, ttaraseo, gyeolgwajeogeuro
\* (conclusion, therefore, as a result), gwonjang, jean; tonggye (statistics), bunseok
\* (analysis)
SummaryOf(findings) ==
    [totalFindings |-> Len(findings),
     keyInsights |-> CountIncluding(findings, {"jungyo", "juyo", "haeksim", "insaiteu", "balgyeon"}),
     dataPoints |-> CountIncluding(findings, {"gae", "geon", "%", "jeungga", "gamso", "biyul"}),
     conclusions |-> CountIncluding(findings, {"gyeollon", "ttaraseo", "gyeolgwajeogeuro", "gwonjang", "jean"}),
     qualityScore |-> Min(MaxQualityScore,
                          Len(findings) * 10 + CountIncluding(findings, {"tonggye"}) * 5
                          + CountIncluding(findings, {"bunseok"}) * 3)]

SummaryTable == [findings \in FindingLists |-> SummaryOf(findings)]

Summary(findings) == SummaryTable[findings]

summarizeFindingsTool(st, callback, findings, question, reasoning, cbThrows) ==
    LET emitted == callReasoningCallback(callback, reasoning, PrefixSummarize)
    IN  IF emitted # <<>> /\ cbThrows
        THEN Outcome(st, Failure(ErrCallback, None), <<>>, emitted)
        ELSE Outcome(st, [Success(1, None, None) EXCEPT !.detail = Some(Summary(findings))],
                     <<>>, emitted)

-----------------------------------------------------------------------------
(* The tool layer called directly: every tool, any order, any input.          *)

NoCall == [tool |-> "none", args |-> <<>>, stmts |-> <<>>, result |-> Failure("", None),
           emitted |-> <<>>]

Call(tool, args, o) ==
    [tool |-> tool, args |-> args, stmts |-> o.stmts, result |-> o.result,
     emitted |-> o.emitted]

\* The tracker stays within the bounds of the model
InBounds(st) ==
    /\ st.errorCount <= MaxErrors
    /\ Len(st.observations) <= MaxObservations

ToolFrame ==
    UNCHANGED <<enhancedReasoningCallback, files, tables, chat_history, runs,
                delivered, lastRequest, pending, reader, stream, calc>>

\* The result of a tool call becomes the tracker and the record of the call
Return(tool, args, o) ==
    /\ InBounds(o.state)
    /\ globalReActState' = o.state
    /\ lastCall' = Call(tool, args, o)

SetReasoningCallback ==
    /\ \E callback \in {None, Some("A")} :
          /\ callback # globalReasoningCallback
          /\ globalReasoningCallback' = callback
    /\ UNCHANGED <<globalReActState, lastCall>>
    /\ ToolFrame

PlanActions ==
    /\ \E question \in Questions, cbThrows \in BOOLEAN :
          Return("plan_actions", [question |-> question],
                 planActionsTool(globalReActState, globalReasoningCallback,
                                 question, Reasoning, cbThrows))
    /\ UNCHANGED globalReasoningCallback
    /\ ToolFrame

TrackProgress ==
    /\ \E currentAction \in TrackActions, result \in TrackResults, cbThrows \in BOOLEAN :
          Return("track_progress", [currentAction |-> currentAction, result |-> result],
                 trackProgressTool(globalReActState, globalReasoningCallback,
                                   currentAction, result, Reasoning, cbThrows))
    /\ UNCHANGED globalReasoningCallback
    /\ ToolFrame

ExecuteSql ==
    /\ \E q \in SqlCatalogue, fileId \in DatasetIds, reasoning \in OptReasonings,
          cbThrows \in BOOLEAN, io \in BOOLEAN :
          Return("execute_sql", [query |-> q.text, fileId |-> fileId],
                 executeSqlTool(globalReActState, globalReasoningCallback,
                                q.text, fileId, reasoning, cbThrows, io))
    /\ UNCHANGED globalReasoningCallback
    /\ ToolFrame

GetTableSchema ==
    /\ \E fileId \in DatasetIds, reasoning \in OptReasonings,
          cbThrows \in BOOLEAN, io \in BOOLEAN :
          Return("get_table_schema", [fileId |-> fileId],
                 getTableSchemaTool(globalReActState, globalReasoningCallback,
                                    fileId, reasoning, cbThrows, io))
    /\ UNCHANGED globalReasoningCallback
    /\ ToolFrame

GetSampleData ==
    /\ \E fileId \in DatasetIds, limit \in SampleLimits, reasoning \in OptReasonings,
          cbThrows \in BOOLEAN, io \in BOOLEAN :
          Return("get_sample_data", [fileId |-> fileId, limit |-> limit],
                 getSampleDataTool(globalReActState, globalReasoningCallback,
                                   fileId, limit, reasoning, cbThrows, io))
    /\ UNCHANGED globalReasoningCallback
    /\ ToolFrame

ReflectOnResults ==
    /\ \E results \in ResultTexts, question \in Questions, cbThrows \in BOOLEAN :
          Return("reflect_on_results", [results |-> results, question |-> question],
                 reflectOnResultsTool(globalReActState, globalReasoningCallback,
                                      results, question, Reasoning, cbThrows))
    /\ UNCHANGED globalReasoningCallback
    /\ ToolFrame

SummarizeFindings ==
    /\ \E findings \in FindingLists, question \in Questions, cbThrows \in BOOLEAN :
          Return("summarize_findings", [findings |-> findings],
                 summarizeFindingsTool(globalReActState, globalReasoningCallback,
                                       findings, question, Reasoning, cbThrows))
    /\ UNCHANGED globalReasoningCallback
    /\ ToolFrame

RunIds == {"A", "B"}

\* What a run function hands to its caller: nothing yet, the answer of the model, a
\* narrative written by its catch block (with the progress it reports, if any), or an
\* exception
NoOutcome == [kind |-> "none", progress |-> None]

Answer == [kind |-> "answer", progress |-> None]

Raised == [kind |-> "raised", progress |-> None]

Narrative(kind, progress) == [kind |-> kind, progress |-> progress]

\* No run in flight; raises: the callback the run was given raises when it is invoked
IdleRun ==
    [pc |-> "idle", entry |-> "", callback |-> None, steps |-> 0, limit |-> 0,
     own |-> InitialReActState, produced |-> 0, raises |-> FALSE, outcome |-> NoOutcome]

IdleRuns == [r \in RunIds |-> IdleRun]

NoDelivery == [c \in RunIds |-> <<>>]

NoRequest == [route |-> "none", id |-> "", status |-> 0, removed |-> 0, steps |-> <<>>]

NoPending == [id \in DatasetIds |-> <<>>]

NoReader == [pc |-> "idle"]

\* frames: what was enqueued; events: the route's steps after the run, in order
NoStream ==
    [pc |-> "idle", fileId |-> "", frames |-> <<>>, events |-> <<>>, cancelled |-> FALSE]

NoCalc == [op |-> "none", input |-> <<>>, output |-> <<>>, done |-> FALSE]

\* Nothing is being read, served or ingested
Quiet == reader = NoReader /\ stream = NoStream /\ calc = NoCalc

FewRows == 3

TableColumns == 2

\* Two loaded datasets: x with the given number of rows, y small
Loaded(rows) ==
    /\ files = DatasetIds
    /\ tables = [n \in {TableName(id) : id \in DatasetIds} |->
                    [rows |-> IF n = TableName("x") THEN rows ELSE FewRows,
                     cols |-> TableColumns]]
    /\ chat_history = <<>>

InitTools(rowChoices) ==
    /\ globalReActState = InitialReActState
    /\ globalReasoningCallback = None
    /\ enhancedReasoningCallback = None
    /\ \E rows \in rowChoices : Loaded(rows)
    /\ lastCall = NoCall
    /\ runs = IdleRuns
    /\ delivered = NoDelivery
    /\ lastRequest = NoRequest
    /\ pending = NoPending
    /\ Quiet

\* The query tools: execute_sql, get_table_schema, get_sample_data
NextQuery ==
    \/ SetReasoningCallback
    \/ ExecuteSql
    \/ GetTableSchema
    \/ GetSampleData

InitQuery == InitTools({FewRows, MaxRows})

SpecQuery == InitQuery /\ [][NextQuery]_vars

\* The tracker tools: plan_actions, track_progress, reflect_on_results, summarize_findings
NextTracker ==
    \/ SetReasoningCallback
    \/ PlanActions
    \/ TrackProgress
    \/ ReflectOnResults
    \/ SummarizeFindings

InitTracker == InitTools({FewRows})

SpecTracker == InitTracker /\ [][NextTracker]_vars

\* The tools that read or write the replan flag and the error count, and the query
\* tools between them
NextReplan ==
    \/ SetReasoningCallback
    \/ PlanActions
    \/ TrackProgress
    \/ ReflectOnResults
    \/ ExecuteSql
    \/ GetTableSchema
    \/ GetSampleData

SpecReplan == InitTracker /\ [][NextReplan]_vars

-----------------------------------------------------------------------------
(* The storage routes: the chat route's history append, the dataset delete    *)
(* route, and get_table_schema called against the same storage.  A request    *)
(* handler runs without interruption between two of its awaits.               *)

\* The turns of a dataset: SELECT ... FROM chat_history WHERE fileId = ?
TurnsOf(fileId) == SelectSeq(chat_history, LAMBDA turn : turn.fileId = fileId)

\* DELETE FROM chat_history WHERE fileId = ?
WithoutTurnsOf(fileId) == SelectSeq(chat_history, LAMBDA turn : turn.fileId # fileId)

Response(route, id, status, removed) ==
    [route |-> route, id |-> id, status |-> status, removed |-> removed, steps |-> <<>>]

\* database.ts:54-64: the history table references the registry with ON DELETE
\* CASCADE, and better-sqlite3 enforces foreign keys by default: an insert for an id
\* without a registry row fails, and deleting a registry row deletes its turns
ForeignKeyHolds_mutNotEnforced(fileId) == TRUE

ForeignKeyHolds(fileId) == fileId \in files

CascadeDelete_mutNoCascade(fileId) == chat_history

CascadeDelete(fileId) == WithoutTurnsOf(fileId)

\* The timestamp column defaults to CURRENT_TIMESTAMP (database.ts:60), which has a
\* resolution of one second: a turn saved within the second of the one before it
\* carries the same timestamp
CurrentTimestamp(advance) ==
    IF chat_history = <<>> THEN advance
    ELSE chat_history[Len(chat_history)].timestamp + advance

Turn(fileId, userMessage, timestamp) ==
    [fileId |-> fileId, userMessage |-> userMessage, timestamp |-> timestamp]

\* chat-history.ts:18-34: the insert and whether it succeeded
saveChatHistory(fileId, userMessage, advance, io) ==
    LET saved == io /\ ForeignKeyHolds(fileId)
    IN  [saved |-> saved,
         chat_history |-> IF saved
                          THEN Append(chat_history,
                                      Turn(fileId, userMessage, CurrentTimestamp(advance)))
                          ELSE chat_history]

\* chat-history.ts:18-34 as called at the end of the chat route (route.ts:56-61): the
\* request found its dataset when it began; a failure to save is swallowed
SaveChatHistory(messages, advances) ==
    /\ Len(chat_history) < MaxTurns
    /\ \E fileId \in DatasetIds, userMessage \in messages, advance \in advances,
          io \in BOOLEAN :
          /\ CurrentTimestamp(advance) <= MaxClock
          /\ chat_history' = saveChatHistory(fileId, userMessage, advance, io).chat_history
          /\ lastRequest' = Response("chat", fileId, 200, 0)
    /\ UNCHANGED <<globalReActState, globalReasoningCallback, enhancedReasoningCallback,
                   files, tables, lastCall, runs, delivered, pending, reader, stream,
                   calc>>

\* route.ts:39-42 and 53: the frames of the stream
Frame(type, content) == [type |-> type, content |-> content]

reasoningData(reasoning) == Frame("reasoning", reasoning)

finalData_mutError(response) == Frame("error", response)

finalData(response) == Frame("response", response)

errorData == Frame("error", "apology")

\* controller.enqueue raises once the consumer has cancelled the stream
CanEnqueue(s) == s.pc = "open" /\ ~s.cancelled

\* route.ts:56-63: the append has been attempted; its failure is caught by the empty
\* catch of line 59, and the stream is closed. The _mut variant lets the failure reach
\* the catch of line 65
AfterSave_mutNotSwallowed(s, saved) ==
    IF saved
    THEN [s EXCEPT !.pc = "closed", !.events = @ \o <<"append", "close">>]
    ELSE [s EXCEPT !.pc = "closed", !.frames = Append(@, errorData),
                   !.events = @ \o <<"append failed", "error", "close">>]

AfterSave(s, saved) ==
    [s EXCEPT !.pc = "closed",
              !.events = @ \o <<IF saved THEN "append" ELSE "append failed", "close">>]

\* route.ts:6-36 and 76-82: the request is parsed, the dataset looked up, and the
\* stream handed to the client
ChatStart ==
    /\ stream.pc \in {"idle", "closed", "errored"}
    /\ \E fileId \in DatasetIds, ioLookup \in BOOLEAN :
          IF ~ioLookup \/ fileId \notin files
          THEN /\ lastRequest' = Response("chat", fileId, 404, 0)
               /\ stream' = NoStream
          ELSE /\ lastRequest' = Response("chat", fileId, 200, 0)
               /\ stream' = [NoStream EXCEPT !.pc = "open", !.fileId = fileId]
    /\ UNCHANGED <<globalReActState, globalReasoningCallback, enhancedReasoningCallback,
                   files, tables, chat_history, lastCall, runs, delivered, pending,
                   reader, calc>>

\* The run hands a reasoning message to onReasoning (route.ts:39-42). On a cancelled
\* stream enqueue raises and the run swallows it (enhanced-react-agent.ts:562-571 and
\* the catch of its tools): nothing changes
ChatReasoning ==
    /\ stream.pc = "open"
    /\ Len(stream.frames) < MaxReasoning
    /\ CanEnqueue(stream)
    /\ stream' = [stream EXCEPT !.frames = Append(@, reasoningData(Reasoning))]
    /\ UNCHANGED <<globalReActState, globalReasoningCallback, enhancedReasoningCallback,
                   files, tables, chat_history, lastCall, runs, delivered, lastRequest,
                   pending, reader, calc>>

\* The client stops reading
ClientCancel ==
    /\ stream.pc = "open"
    /\ ~stream.cancelled
    /\ stream' = [stream EXCEPT !.cancelled = TRUE]
    /\ UNCHANGED <<globalReActState, globalReasoningCallback, enhancedReasoningCallback,
                   files, tables, chat_history, lastCall, runs, delivered, lastRequest,
                   pending, reader, calc>>

\* route.ts:45-72: the run has returned its answer or its apology. The response frame
\* is enqueued, the turn appended, the stream closed; when enqueue raises, the catch
\* of line 65 runs, whose own enqueue raises as well and leaves the stream errored
ChatAnswer ==
    /\ stream.pc = "open"
    /\ Len(chat_history) < MaxTurns
    /\ \E response \in {"answer", "apology"}, advance \in {0, 1}, io \in BOOLEAN :
          /\ CurrentTimestamp(advance) <= MaxClock
          /\ IF CanEnqueue(stream)
             THEN LET save == saveChatHistory(stream.fileId, "q1", advance, io)
                      sent == [stream EXCEPT !.frames = Append(@, finalData(response)),
                                             !.events = Append(@, "response")]
                  IN  /\ chat_history' = save.chat_history
                      /\ stream' = AfterSave(sent, save.saved)
             ELSE /\ stream' = [stream EXCEPT !.pc = "errored"]
                  /\ UNCHANGED chat_history
    /\ UNCHANGED <<globalReActState, globalReasoningCallback, enhancedReasoningCallback,
                   files, tables, lastCall, runs, delivered, lastRequest, pending, reader,
                   calc>>

NextChat ==
    \/ ChatStart
    \/ ChatReasoning
    \/ ClientCancel
    \/ ChatAnswer

InitChat == InitTools({FewRows})

SpecChat == InitChat /\ [][NextChat]_vars

Reverse(s) == [i \in 1..Len(s) |-> s[Len(s) + 1 - i]]

\* SQL leaves the order of rows with equal sort keys to the engine: it may keep them in
\* insertion order or give them in the opposite order, for each statement
TieOrders == {"insertion", "reverse insertion"}

\* ORDER BY timestamp ASC / DESC over rows held in insertion order
OrderByTimestamp(rows, direction, ties) ==
    LET n == Len(rows)
        before(i, j) ==
            IF rows[i].timestamp # rows[j].timestamp
            THEN IF direction = "ASC" THEN rows[i].timestamp < rows[j].timestamp
                 ELSE rows[i].timestamp > rows[j].timestamp
            ELSE IF ties = "insertion" THEN i < j ELSE i > j
        rank(i) == 1 + Cardinality({j \in 1..n : before(j, i)})
    IN  [k \in 1..n |-> rows[CHOOSE i \in 1..n : rank(i) = k]]

\* LIMIT ? OFFSET ?
LimitOffset(rows, limit, offset) == SubSeq(rows, offset + 1, Min(offset + limit, Len(rows)))

\* chat-history.ts:59-73
getAllChatHistory(fileId, ties) == OrderByTimestamp(TurnsOf(fileId), "ASC", ties)

\* chat-history.ts:111-124
getChatHistoryCount(fileId) == Len(TurnsOf(fileId))

\* chat-history.ts:127-164: the page is fetched newest-first and handed out reversed
getChatHistoryPaginated(fileId, page, limit, ties) ==
    LET offset == (page - 1) * limit
        historyResult ==
            LimitOffset(OrderByTimestamp(TurnsOf(fileId), "DESC", ties), limit, offset)
        totalCount == getChatHistoryCount(fileId)
    IN  [history |-> Reverse(historyResult),
         totalCount |-> totalCount,
         hasMore |-> offset + limit < totalCount,
         currentPage |-> page]

\* chat-history.ts:14: the context limit when the environment sets none
DefaultContextLimit == 3

\* chat-history.ts:12-15: the limit the environment sets, or the default
getChatContextLimit == 1..DefaultContextLimit

\* chat-history.ts:37-56: the newest turns are fetched newest-first and handed out
\* reversed
getRecentChatHistory(fileId, limit, ties) ==
    Reverse(LimitOffset(OrderByTimestamp(TurnsOf(fileId), "DESC", ties), limit, 0))

\* A run reads the context of its dataset (react-agent.ts:67); a failed query raises
\* (chat-history.ts:48-51)
ReadRecent ==
    /\ reader.pc = "idle"
    /\ \E fileId \in DatasetIds, limit \in getChatContextLimit, asc \in TieOrders,
          desc \in TieOrders, io \in BOOLEAN :
          reader' = [pc |-> IF io THEN "context" ELSE "failed", fileId |-> fileId,
                     limit |-> limit, page |-> 1,
                     read |-> IF io THEN getRecentChatHistory(fileId, limit, desc)
                              ELSE <<>>,
                     ascTies |-> asc, descTies |-> desc]
    /\ UNCHANGED <<globalReActState, globalReasoningCallback, enhancedReasoningCallback,
                   files, tables, chat_history, lastCall, runs, delivered, lastRequest,
                   pending, stream, calc>>

\* A client starts to page through the history of a dataset with a page size
StartPaging ==
    /\ reader.pc = "idle"
    /\ \E fileId \in DatasetIds, limit \in 1..MaxPageSize, asc \in TieOrders,
          desc \in TieOrders :
          reader' = [pc |-> "paging", fileId |-> fileId, limit |-> limit, page |-> 1,
                     read |-> <<>>, ascTies |-> asc, descTies |-> desc]
    /\ UNCHANGED <<globalReActState, globalReasoningCallback, enhancedReasoningCallback,
                   files, tables, chat_history, lastCall, runs, delivered, lastRequest,
                   pending, stream, calc>>

\* The client fetches its next page, reads it newest-first, and goes on while the
\* page says there is more; a failed query raises (chat-history.ts:145-148)
ReadPage ==
    /\ reader.pc = "paging"
    /\ \E io \in BOOLEAN :
          LET result == getChatHistoryPaginated(reader.fileId, reader.page, reader.limit,
                                                reader.descTies)
          IN  reader' = IF ~io THEN [reader EXCEPT !.pc = "failed"]
                        ELSE [reader EXCEPT
                                 !.read = @ \o Reverse(result.history),
                                 !.page = IF result.hasMore THEN @ + 1 ELSE @,
                                 !.pc = IF result.hasMore THEN "paging" ELSE "done"]
    /\ UNCHANGED <<globalReActState, globalReasoningCallback, enhancedReasoningCallback,
                   files, tables, chat_history, lastCall, runs, delivered, lastRequest,
                   pending, stream, calc>>

\* The client leaves
StopPaging ==
    /\ reader.pc \in {"done", "failed", "context"}
    /\ reader' = NoReader
    /\ UNCHANGED <<globalReActState, globalReasoningCallback, enhancedReasoningCallback,
                   files, tables, chat_history, lastCall, runs, delivered, lastRequest,
                   pending, stream, calc>>

\* Turns are appended while no client is paging: a paging client sees a fixed history
AppendTurn ==
    /\ reader.pc = "idle"
    /\ SaveChatHistory({"q1", "q2"}, {0, 1})

NextHistory ==
    \/ AppendTurn
    \/ ReadRecent
    \/ StartPaging
    \/ ReadPage
    \/ StopPaging

InitHistory == InitTools({FewRows})

SpecHistory == InitHistory /\ [][NextHistory]_vars

-----------------------------------------------------------------------------
(* The history route (GET of /api/chat/history) over a stored history.  The   *)
(* turns of the stored histories carry distinct timestamps, so that the       *)
(* answer does not depend on how the engine orders equal ones.                *)

MaxStored == 11

\* part_002:10-11: the page size when the request names none
DefaultPageSize == 10

\* n turns of dataset x saved one second after the other, after one turn of y
History(n) ==
    <<Turn("y", "q0", 0)>> \o [i \in 1..n |-> Turn("x", "q1", i)]

\* part_002:10-11: parseInt(searchParams.get(name) || fallback, 10)
ParamOr(param, fallback) == IF param = None THEN fallback ELSE param[1]

\* part_002:5-57: the answer to a request with a dataset id. A field the branch does
\* not write is None
GET(fileId, all, pageParam, limitParam, contextLimit, ties) ==
    LET page == ParamOr(pageParam, 1)
        limit == ParamOr(limitParam, DefaultPageSize)
        totalCount == getChatHistoryCount(fileId)
        result == getChatHistoryPaginated(fileId, page, limit, ties)
        recent == getRecentChatHistory(fileId, contextLimit, ties)
    IN  IF all
        THEN [history |-> getAllChatHistory(fileId, ties), totalCount |-> totalCount,
              hasMore |-> None, currentPage |-> None, isPartial |-> FALSE]
        ELSE IF page > 1 \/ limit # DefaultPageSize
        THEN [history |-> result.history, totalCount |-> result.totalCount,
              hasMore |-> Some(result.hasMore), currentPage |-> Some(result.currentPage),
              isPartial |-> TRUE]
        ELSE [history |-> recent, totalCount |-> totalCount,
              hasMore |-> None, currentPage |-> None,
              isPartial |-> totalCount > Len(recent)]

\* A client asks for the history of a dataset; a failed query is answered 500
\* (part_002:59-65)
GetHistory ==
    /\ reader.pc = "idle"
    /\ \E fileId \in DatasetIds, all \in BOOLEAN,
          pageParam \in {None, Some(1), Some(2)},
          limitParam \in {None, Some(DefaultPageSize), Some(MaxPageSize)},
          contextLimit \in getChatContextLimit, ties \in TieOrders, io \in BOOLEAN :
          reader' = [pc |-> IF io THEN "answered" ELSE "failed",
                     fileId |-> fileId,
                     request |-> [all |-> all, page |-> pageParam, limit |-> limitParam],
                     response |-> IF io
                                  THEN Some(GET(fileId, all, pageParam, limitParam,
                                                contextLimit, ties))
                                  ELSE None]
    /\ UNCHANGED <<globalReActState, globalReasoningCallback, enhancedReasoningCallback,
                   files, tables, chat_history, lastCall, runs, delivered, lastRequest,
                   pending, stream, calc>>

\* The client leaves
Leave ==
    /\ reader.pc \in {"answered", "failed"}
    /\ reader' = NoReader
    /\ UNCHANGED <<globalReActState, globalReasoningCallback, enhancedReasoningCallback,
                   files, tables, chat_history, lastCall, runs, delivered, lastRequest,
                   pending, stream, calc>>

NextEndpoint ==
    \/ GetHistory
    \/ Leave

\* Two loaded datasets and a stored history
InitEndpoint ==
    /\ globalReActState = InitialReActState
    /\ globalReasoningCallback = None
    /\ enhancedReasoningCallback = None
    /\ files = DatasetIds
    /\ tables = [n \in {TableName(id) : id \in DatasetIds} |->
                    [rows |-> FewRows, cols |-> TableColumns]]
    /\ \E n \in 0..MaxStored : chat_history = History(n)
    /\ lastCall = NoCall
    /\ runs = IdleRuns
    /\ delivered = NoDelivery
    /\ lastRequest = NoRequest
    /\ pending = NoPending
    /\ Quiet

SpecEndpoint == InitEndpoint /\ [][NextEndpoint]_vars

\* The steps a delete request has taken, in order, each with its outcome
StepClear(ok) == IF ok THEN "clear history" ELSE "clear history failed"

StepDrop(ok) == IF ok THEN "drop table" ELSE "drop table failed"

StepMetadata(ok) == IF ok THEN "delete metadata" ELSE "delete metadata failed"

\* part_003:25-64: a failed clear is logged and the delete goes on (catch of line 29);
\* a failed drop or metadata delete is thrown to the catch of line 58, which answers
\* 500. The _mut variant treats the failed clear as fatal too
DeleteStatus_mutClearFatal(steps) ==
    IF steps = <<StepClear(TRUE), StepDrop(TRUE), StepMetadata(TRUE)>> THEN 200 ELSE 500

DeleteStatus(steps) ==
    IF SubSeq(steps, 2, Len(steps)) = <<StepDrop(TRUE), StepMetadata(TRUE)>>
    THEN 200 ELSE 500

\* The delete route up to its await of clearChatHistory (part_003:10-27): the lookup,
\* then the history clear, whose failure is swallowed. pending holds, per dataset, the
\* steps taken by each request suspended at that await
DeleteStart ==
    /\ \E id \in DatasetIds, ioLookup \in BOOLEAN, ioClear \in BOOLEAN :
          IF ~ioLookup \/ id \notin files
          THEN /\ lastRequest' = Response("delete", id, 404, 0)
               /\ UNCHANGED <<chat_history, pending>>
          ELSE /\ Len(pending[id]) < MaxPending
               /\ chat_history' = IF ioClear THEN WithoutTurnsOf(id) ELSE chat_history
               /\ pending' = [pending EXCEPT ![id] = Append(@, <<StepClear(ioClear)>>)]
               /\ UNCHANGED lastRequest
    /\ UNCHANGED <<globalReActState, globalReasoningCallback, enhancedReasoningCallback,
                   files, tables, lastCall, runs, delivered, reader, stream, calc>>

\* The delete route after that await (part_003:28-64), for the request that has waited
\* longest: drop the table, delete the registry row, answer
DeleteFinish ==
    /\ \E id \in DatasetIds, ioDrop \in BOOLEAN, ioDelete \in BOOLEAN :
          /\ pending[id] # <<>>
          /\ pending' = [pending EXCEPT ![id] = Tail(@)]
          /\ tables' = IF ioDrop
                       THEN [n \in DOMAIN tables \ {TableName(id)} |-> tables[n]]
                       ELSE tables
          /\ LET steps == Head(pending[id]) \o
                          (IF ioDrop THEN <<StepDrop(TRUE), StepMetadata(ioDelete)>>
                           ELSE <<StepDrop(FALSE)>>)
                 removed == IF id \in files THEN Len(TurnsOf(id)) ELSE 0
             IN  IF ioDrop /\ ioDelete
                 THEN /\ files' = files \ {id}
                      /\ chat_history' = IF id \in files THEN CascadeDelete(id)
                                         ELSE chat_history
                      /\ lastRequest' = [Response("delete", id, DeleteStatus(steps), removed)
                                            EXCEPT !.steps = steps]
                 ELSE /\ lastRequest' = [Response("delete", id, DeleteStatus(steps), 0)
                                            EXCEPT !.steps = steps]
                      /\ UNCHANGED <<files, chat_history>>
    /\ UNCHANGED <<globalReActState, globalReasoningCallback, enhancedReasoningCallback,
                   lastCall, runs, delivered, reader, stream, calc>>

NextStore ==
    \/ SaveChatHistory({"q1"}, {0})
    \/ DeleteStart
    \/ DeleteFinish
    \/ GetTableSchema

InitStore == InitTools({FewRows})

SpecStore == InitStore /\ [][NextStore]_vars

-----------------------------------------------------------------------------
(* The run entry points: processQueryWithEnhancedReAct of react-agent.ts      *)
(* (entry "react": tracker and callback of react-state.ts, tools of           *)
(* react-tools.ts) and of enhanced-react-agent.ts (entry "enhanced", the one   *)
(* the chat route imports: its own module-level callback, no tracker).  A run  *)
(* is suspended at the model call and at the tool execution; the prebuilt     *)
(* agent graph alternates an agent superstep and a tools superstep and gives   *)
(* up when its recursion limit of supersteps is used up with work remaining.   *)

Entries == {"react", "enhanced"}

\* react-agent.ts:222
RecursionLimit == 50

\* enhanced-react-agent.ts:524-531 passes no recursionLimit: the graph library's
\* default applies
DefaultRecursionLimit == 25

LimitOf(entry) == IF entry = "react" THEN RecursionLimit ELSE DefaultRecursionLimit

\* A run's own callback is named after the run; a run r started with onReasoning
\* receives what is handed to callback r
Deliver(box, emitted, from, via) ==
    IF emitted = <<>> THEN box
    ELSE [box EXCEPT ![emitted[1].to] = Append(@, [from |-> from, via |-> via])]

\* onReasoning(...) called by the entry point itself on the callback it was given
Direct(callback) ==
    IF callback # None THEN <<[to |-> callback[1], reasoning |-> "", prefix |-> ""]>>
    ELSE <<>>

\* The tool requests of the reasoning capability: while two runs overlap, and when it
\* asks for another tool call on every invocation
RunRequests ==
    [entry \in Entries |->
        IF entry = "react"
        THEN { [tool |-> "plan_actions", question |-> "sales bunpo",
                reasoning |-> Some(Reasoning)],
               [tool |-> "track_progress", currentAction |-> StepSchema, result |-> "done",
                reasoning |-> Some(Reasoning)] }
        ELSE { [tool |-> "execute_sql", query |-> "SELECT * FROM data_x", fileId |-> "x",
                reasoning |-> Some(Reasoning)] }]

LoopRequests ==
    [entry \in Entries |->
        { [tool |-> "execute_sql", query |-> "SELECT * FROM data_x", fileId |-> "x",
           reasoning |-> None] }]

\* One tool of react-tools.ts executed for a request
RunTool(req, st, callback, cbThrows) ==
    CASE req.tool = "plan_actions" ->
            planActionsTool(st, callback, req.question, req.reasoning[1], cbThrows)
      [] req.tool = "track_progress" ->
            trackProgressTool(st, callback, req.currentAction, req.result,
                              req.reasoning[1], cbThrows)
      [] req.tool = "execute_sql" ->
            executeSqlTool(st, callback, req.query, req.fileId, req.reasoning, cbThrows,
                           TRUE)

\* The callback registered for the tools raises when it is invoked
Throws(callback) == callback # None /\ runs[callback[1]].raises

\* What a tool of enhanced-react-agent.ts hands to that module's callback
\* (enhanced-react-agent.ts:40-54)
EnhancedEmit(callback, reasoning) ==
    IF callback # None /\ Truthy(reasoning)
    THEN <<[to |-> callback[1], reasoning |-> reasoning[1], prefix |-> ""]>>
    ELSE <<>>

RunFrame ==
    UNCHANGED <<files, tables, chat_history, lastCall, lastRequest, pending, reader,
                stream, calc>>

InFlight(r) == runs[r].pc \in {"agent", "tools"}

\* The entry point up to its await of agent.invoke: register the callback, reset the
\* tracker (react), announce the start on the callback given
StartRun(r) ==
    /\ runs[r].pc = "idle"
    /\ \E entry \in Entries, onReasoning \in {None, Some(r)} :
          /\ runs' = [runs EXCEPT ![r] = [pc |-> "agent", entry |-> entry,
                                           callback |-> onReasoning, steps |-> 0,
                                           limit |-> LimitOf(entry), own |-> resetState,
                                           produced |-> 0, raises |-> FALSE,
                                           outcome |-> NoOutcome]]
          /\ delivered' = Deliver(delivered, Direct(onReasoning), r, "direct")
          /\ IF entry = "react"
             THEN /\ globalReasoningCallback' = onReasoning
                  /\ globalReActState' = resetState
                  /\ UNCHANGED enhancedReasoningCallback
             ELSE /\ enhancedReasoningCallback' = onReasoning
                  /\ UNCHANGED <<globalReasoningCallback, globalReActState>>
    /\ RunFrame

\* An agent superstep: the model is called (react: ApiCallTracker.handleLLMStart) and
\* answers with a tool request, as long as it has made fewer than maxCalls of them,
\* or, if it may, with its final answer
ModelStep(r, mayFinish, maxCalls) ==
    /\ runs[r].pc = "agent"
    /\ runs[r].steps < runs[r].limit
    /\ \E finish \in BOOLEAN :
          /\ finish => mayFinish
          /\ ~finish => runs[r].steps \div 2 < maxCalls
          /\ runs' = [runs EXCEPT ![r].pc = IF finish THEN "answered" ELSE "tools",
                                  ![r].steps = @ + 1,
                                  ![r].own = IF runs[r].entry = "react"
                                             THEN incrementApiCallCount(@) ELSE @]
    /\ globalReActState' = IF runs[r].entry = "react"
                           THEN incrementApiCallCount(globalReActState)
                           ELSE globalReActState
    /\ UNCHANGED <<globalReasoningCallback, enhancedReasoningCallback, delivered>>
    /\ RunFrame

\* A tools superstep: the requested tool runs against the module-level tracker and
\* callback, whoever set them last (a tool of the enhanced entry has no tracker: it
\* hands its reasoning to that module's callback and queries storage)
ToolStep(r, requests) ==
    /\ runs[r].pc = "tools"
    /\ runs[r].steps < runs[r].limit
    /\ \E req \in requests[runs[r].entry] :
          LET o == RunTool(req, globalReActState, globalReasoningCallback,
                           Throws(globalReasoningCallback))
              emitted == IF runs[r].entry = "react" THEN o.emitted
                         ELSE IF Throws(enhancedReasoningCallback) THEN <<>>
                         ELSE EnhancedEmit(enhancedReasoningCallback, req.reasoning)
          IN  /\ runs' = [runs EXCEPT
                            ![r].pc = "agent",
                            ![r].steps = @ + 1,
                            ![r].own = IF runs[r].entry = "react"
                                       THEN RunTool(req, @, globalReasoningCallback,
                                                    Throws(globalReasoningCallback)).state
                                       ELSE @,
                            ![r].produced = IF Truthy(req.reasoning) THEN @ + 1 ELSE @]
              /\ globalReActState' = IF runs[r].entry = "react" THEN o.state
                                     ELSE globalReActState
              /\ delivered' = Deliver(delivered, emitted, r, "tool")
    /\ UNCHANGED <<globalReasoningCallback, enhancedReasoningCallback>>
    /\ RunFrame

\* The module-level callbacks after the finally block of the entry point
Unregister(r) ==
    IF runs[r].entry = "react"
    THEN /\ globalReasoningCallback' = None
         /\ UNCHANGED enhancedReasoningCallback
    ELSE /\ enhancedReasoningCallback' = None
         /\ UNCHANGED globalReasoningCallback

\* The progress the general branch of the catch block writes into its narrative
\* (react-agent.ts:309-312)
Progress(st) ==
    [plan |-> Len(st.currentPlan), completed |-> Len(st.completedActions),
     errors |-> st.errorCount]

\* What the catch block of an entry point hands to the caller. react-agent.ts:261-317
\* first calls the run's own callback, outside any try, then writes a narrative from
\* the module-level tracker; enhanced-react-agent.ts:562-571 returns a fixed apology
CatchOutcome(r) ==
    IF runs[r].entry = "react"
    THEN IF runs[r].callback # None /\ runs[r].raises THEN Raised
         ELSE Narrative("recovery", Some(Progress(globalReActState)))
    ELSE Narrative("apology", None)

\* The run ends in the catch block (aborted by the cycle limit, or failed otherwise),
\* and the finally block unregisters
Catch(r, pc) ==
    /\ runs' = [runs EXCEPT ![r].pc = pc, ![r].outcome = CatchOutcome(r)]
    /\ delivered' = IF runs[r].entry = "react" /\ ~runs[r].raises
                    THEN Deliver(delivered, Direct(runs[r].callback), r, "direct")
                    ELSE delivered
    /\ Unregister(r)
    /\ UNCHANGED globalReActState
    /\ RunFrame

\* agent.invoke returned: announce the end on the run's own callback, answer, and
\* unregister whatever callback is registered; a callback that raises sends the run
\* to its catch block
FinishRun(r) ==
    /\ runs[r].pc = "answered"
    /\ IF runs[r].callback # None /\ runs[r].raises
       THEN Catch(r, "failed")
       ELSE /\ runs' = [runs EXCEPT ![r].pc = "done", ![r].outcome = Answer]
            /\ delivered' = Deliver(delivered, Direct(runs[r].callback), r, "direct")
            /\ Unregister(r)
            /\ UNCHANGED globalReActState
            /\ RunFrame

\* agent.invoke threw because the recursion limit was used up
AbortRun(r) ==
    /\ InFlight(r)
    /\ runs[r].steps = runs[r].limit
    /\ Catch(r, "aborted")

\* The dataset lookup of the agent's construction or a call of the model failed
FailRun(r) ==
    /\ runs[r].pc = "agent"
    /\ runs[r].steps < runs[r].limit
    /\ Catch(r, "failed")

\* The callback the run was given starts to raise (its receiver has gone away)
CallbackBreaks(r) ==
    /\ InFlight(r)
    /\ runs[r].callback # None
    /\ ~runs[r].raises
    /\ runs' = [runs EXCEPT ![r].raises = TRUE]
    /\ UNCHANGED <<globalReActState, globalReasoningCallback, enhancedReasoningCallback,
                   delivered>>
    /\ RunFrame

InitRuns ==
    /\ globalReActState = InitialReActState
    /\ globalReasoningCallback = None
    /\ enhancedReasoningCallback = None
    /\ Loaded(FewRows)
    /\ lastCall = NoCall
    /\ runs = IdleRuns
    /\ delivered = NoDelivery
    /\ lastRequest = NoRequest
    /\ pending = NoPending
    /\ Quiet

\* Two runs that overlap, the model asking for a few tool calls and then answering
NextRuns ==
    \E r \in RunIds :
        \/ StartRun(r)
        \/ ModelStep(r, TRUE, MaxToolCalls)
        \/ ToolStep(r, RunRequests)
        \/ FinishRun(r)

SpecRuns == InitRuns /\ [][NextRuns]_vars

\* One run, the model asking for another tool call on every invocation
NextLoop ==
    \/ StartRun("A")
    \/ ModelStep("A", FALSE, RecursionLimit)
    \/ ToolStep("A", LoopRequests)
    \/ AbortRun("A")
    \/ FailRun("A")
    \/ CallbackBreaks("A")

SpecLoop == InitRuns /\ [][NextLoop]_vars

-----------------------------------------------------------------------------
(* Ingestion: normalizeColumnNames of shared/lib/utils.ts and inferColumnType *)
(* of the upload route, as functions of their inputs.                          *)

\* utils.ts:32-40
reservedWords ==
    { "select", "from", "where", "insert", "update", "delete", "create", "drop",
      "table", "index", "view", "database", "schema", "primary", "key", "foreign",
      "references", "constraint", "unique", "not", "null", "default", "check",
      "and", "or", "in", "like", "between", "exists", "case", "when", "then",
      "else", "end", "as", "order", "by", "group", "having", "limit", "offset",
      "union", "intersect", "except", "join", "inner", "left", "right", "full",
      "outer", "on", "using", "distinct", "all", "any", "some" }

\* The list of utils.ts holds "only the main ones" (its comment, line 31) of the words
\* that the storage engine reserves; among those it leaves out are these, which SQLite
\* accepts as a name only when quoted
UnlistedKeywords == {"values", "set", "into", "is", "to", "transaction"}

StorageKeywords == reservedWords \cup UnlistedKeywords

IsSpace(c) == c = " "

IsUnderscore(c) == c = "_"

\* utils.ts:43-53: the chain of replacements
cleanColumn(originalColumn) ==
    LET trimmed == trim(originalColumn)
        spaced == replaceRuns(trimmed, IsSpace, "_")
        worded == [i \in 1..Len(spaced) |->
                      IF IsWordChar(spaced[i]) THEN spaced[i] ELSE "_"]
        collapsed == replaceRuns(worded, IsUnderscore, "_")
    IN  stripEnds(collapsed, "_")

\* utils.ts:43-63: the name of the column before duplicates are resolved; index is
\* 0-based as in forEach
baseColumn(originalColumn, index) ==
    LET cleaned == cleanColumn(originalColumn)
        named == IF cleaned = <<>> \/ IsDigit(cleaned[1])
                 THEN Chars("column_" \o ToString(index + 1))
                 ELSE cleaned
    IN  IF Str(toLowerCase(named)) \in reservedWords THEN named \o Chars("_col")
        ELSE named

withCounter(normalizedColumn, counter) ==
    normalizedColumn \o Chars("_" \o ToString(counter))

\* utils.ts:66-71: the while loop; it ends at the first counter whose name is unused
finalColumnName(normalizedColumn, usedNames) ==
    IF Str(toLowerCase(normalizedColumn)) \notin usedNames THEN normalizedColumn
    ELSE LET free == {k \in 1..(Cardinality(usedNames) + 1) :
                         Str(toLowerCase(withCounter(normalizedColumn, k)))
                             \notin usedNames}
         IN  withCounter(normalizedColumn, Least(free))

\* utils.ts:42-76: the forEach from position index + 1 on
RECURSIVE normalizeFrom(_, _, _, _)
normalizeFrom(columns, index, usedNames, normalizedColumns) ==
    IF index >= Len(columns) THEN normalizedColumns
    ELSE LET final == finalColumnName(baseColumn(Chars(columns[index + 1]), index),
                                      usedNames)
         IN  normalizeFrom(columns, index + 1,
                           usedNames \cup {Str(toLowerCase(final))},
                           Append(normalizedColumns, Str(final)))

\* utils.ts:23-82: the normalized names, in the order of the columns
normalizeColumnNames(columns) == normalizeFrom(columns, 0, {}, <<>>)

\* Original column names of uploaded files
ColumnNames ==
    {"Order Date", "Amount ($)", "amount", "2024 total", "select", "values", "???",
     "column_2", "amount_1"}

ColumnLists == UNION {[1..n -> ColumnNames] : n \in 1..MaxColumns}

\* An ingestion computation that has its input and has not run yet
Given(op, input) == [op |-> op, input |-> input, output |-> <<>>, done |-> FALSE]

\* Nothing but an ingestion computation is going on
InitCalc(op, inputs) ==
    /\ globalReActState = InitialReActState
    /\ globalReasoningCallback = None
    /\ enhancedReasoningCallback = None
    /\ Loaded(FewRows)
    /\ lastCall = NoCall
    /\ runs = IdleRuns
    /\ delivered = NoDelivery
    /\ lastRequest = NoRequest
    /\ pending = NoPending
    /\ reader = NoReader
    /\ stream = NoStream
    /\ \E input \in inputs : calc = Given(op, input)

CalcFrame ==
    UNCHANGED <<globalReActState, globalReasoningCallback, enhancedReasoningCallback,
                files, tables, chat_history, lastCall, runs, delivered, lastRequest,
                pending, reader, stream>>

\* The upload route normalizes the header of the file (upload/route.ts:128)
NormalizeColumns ==
    /\ calc.op = "normalizeColumnNames"
    /\ ~calc.done
    /\ calc' = [calc EXCEPT !.output = normalizeColumnNames(calc.input), !.done = TRUE]
    /\ CalcFrame

NextColumns == NormalizeColumns

InitColumns == InitCalc("normalizeColumnNames", ColumnLists)

SpecColumns == InitColumns /\ [][NextColumns]_vars

\* The value of a text of digits
RECURSIVE Number(_)
Number(s) ==
    IF s = <<>> THEN 0
    ELSE 10 * Number(SubSeq(s, 1, Len(s) - 1))
         + (CHOOSE d \in 0..9 : ToString(d) = s[Len(s)])

AllDigits(s) == \A i \in 1..Len(s) : IsDigit(s[i])

\* /^-?\d+$/
IsIntegerText(s) ==
    LET body == IF s # <<>> /\ s[1] = "-" THEN Tail(s) ELSE s
    IN  body # <<>> /\ AllDigits(body)

\* /^-?\d*\.?\d+$/
IsNumericText(s) ==
    LET body == IF s # <<>> /\ s[1] = "-" THEN Tail(s) ELSE s
        dots == {i \in 1..Len(body) : body[i] = "."}
    IN  \/ body # <<>> /\ AllDigits(body)
        \/ \E p \in dots :
              /\ AllDigits(SubSeq(body, 1, p - 1))
              /\ p < Len(body)
              /\ AllDigits(SubSeq(body, p + 1, Len(body)))

IsSeparator(c) == c \in {"-", "/"}

\* The ways s begins with three groups of digits of the given lengths, separated by
\* - or /: the lengths a, b, c of the groups
Groups(s, first, second, third) ==
    {g \in first \X second \X third :
        /\ Len(s) >= g[1] + g[2] + g[3] + 2
        /\ AllDigits(SubSeq(s, 1, g[1]))
        /\ IsSeparator(s[g[1] + 1])
        /\ AllDigits(SubSeq(s, g[1] + 2, g[1] + g[2] + 1))
        /\ IsSeparator(s[g[1] + g[2] + 2])
        /\ AllDigits(SubSeq(s, g[1] + g[2] + 3, g[1] + g[2] + g[3] + 2))}

\* /^\d{4}[-\/]\d{1,2}[-\/]\d{1,2}/
YearFirst(s) == Groups(s, {4}, {1, 2}, {1, 2})

\* /^\d{1,2}[-\/]\d{1,2}[-\/]\d{4}/
YearLast(s) == Groups(s, {1, 2}, {1, 2}, {4})

\* /^\d{4}\d{2}\d{2}$/
IsCompactDate(s) == Len(s) = 8 /\ AllDigits(s)

\* upload/route.ts:69-71
hasDatePattern(s) == YearFirst(s) # {} \/ YearLast(s) # {} \/ IsCompactDate(s)

\* !isNaN(new Date(strValue).getTime()) for a text with a date pattern: a text that
\* is year, month, day (or month, day, year) and nothing more parses when the month
\* is 1..12 and the day 1..31; whether eight digits parse is left to the engine
isValidDate(s, compactParses) ==
    LET whole(G) == {g \in G : g[1] + g[2] + g[3] + 2 = Len(s)}
    IN  \/ \E g \in whole(YearFirst(s)) :
              /\ Number(SubSeq(s, 6, 5 + g[2])) \in 1..12
              /\ Number(SubSeq(s, 7 + g[2], Len(s))) \in 1..31
        \/ \E g \in whole(YearLast(s)) :
              /\ Number(SubSeq(s, 1, g[1])) \in 1..12
              /\ Number(SubSeq(s, g[1] + 2, g[1] + g[2] + 1)) \in 1..31
        \/ IsCompactDate(s) /\ compactParses

\* upload/route.ts:46
SampleSize == 100

\* upload/route.ts:41: null, undefined and the empty string are left out; the empty
\* string stands for all three
nonNullValues(values) == SelectSeq(values, LAMBDA v : v # "")

\* upload/route.ts:39-84; the _mut variant asks for REAL before INTEGER
inferColumnType_mutRealFirst(values, compactParses) ==
    LET sampleValues == SubSeq(nonNullValues(values), 1,
                               Min(SampleSize, Len(nonNullValues(values))))
        strValue(i) == trim(Chars(sampleValues[i]))
        isAllInteger == \A i \in 1..Len(sampleValues) : IsIntegerText(strValue(i))
        isAllReal == \A i \in 1..Len(sampleValues) : IsNumericText(strValue(i))
    IN  IF sampleValues = <<>> THEN "TEXT"
        ELSE IF isAllReal THEN "REAL"
        ELSE IF isAllInteger THEN "INTEGER"
        ELSE "TEXT"

inferColumnType(values, compactParses) ==
    LET sampleValues == SubSeq(nonNullValues(values), 1,
                               Min(SampleSize, Len(nonNullValues(values))))
        strValue(i) == trim(Chars(sampleValues[i]))
        isAllInteger == \A i \in 1..Len(sampleValues) : IsIntegerText(strValue(i))
        isAllReal == \A i \in 1..Len(sampleValues) : IsNumericText(strValue(i))
        isAllDate == \A i \in 1..Len(sampleValues) :
                        /\ isValidDate(strValue(i), compactParses)
                        /\ hasDatePattern(strValue(i))
    IN  IF sampleValues = <<>> THEN "TEXT"
        ELSE IF isAllInteger THEN "INTEGER"
        ELSE IF isAllReal THEN "REAL"
        ELSE IF isAllDate THEN "DATE"
        ELSE "TEXT"

\* Cells of uploaded files; "" is an empty cell
CellValues ==
    {"", "1", "2", "3", " 2", "-3", "1.5", ".5", "a", "2024-01-01", "2024-02-15",
     "2024-13-45", "20240101", "1/2/2024"}

\* Columns longer than the sample: integers, then a word beyond or within the sample
LongColumn(integers, emptyFirst) ==
    (IF emptyFirst THEN <<"">> ELSE <<>>) \o [i \in 1..integers |-> "1"] \o <<"a">>

Columns ==
    UNION {[1..n -> CellValues] : n \in 0..MaxValues}
        \cup {LongColumn(n, e) : n \in {SampleSize - 1, SampleSize}, e \in BOOLEAN}

\* The upload route infers the type of a column (upload/route.ts:151-156)
InferColumnType ==
    /\ calc.op = "inferColumnType"
    /\ ~calc.done
    /\ \E compactParses \in BOOLEAN :
          calc' = [calc EXCEPT !.output = inferColumnType(calc.input, compactParses),
                               !.done = TRUE]
    /\ CalcFrame

NextTypes == InferColumnType

InitTypes == InitCalc("inferColumnType", Columns)

SpecTypes == InitTypes /\ [][NextTypes]_vars

-----------------------------------------------------------------------------
(* The upload route (upload/route.ts POST) against the storage the delete      *)
(* route works on.  Everything after the parse of the file is synchronous     *)
(* (better-sqlite3), so one upload is one step.  What the cells of the file   *)
(* become is computed by convertValue below; the route itself is modelled     *)
(* over the number of rows of the file.                                       *)

MaxUploadRows == 2

\* utils.ts:18-20: a random text followed by the time; an id that names nothing yet
generateId == {id \in DatasetIds : id \notin files /\ ~TableExists(TableName(id))}

\* database.ts:121-136: better-sqlite3 commits the transaction when the callback
\* returns and rolls it back when the callback throws: the rows of the table before
\* and after the callback. The _mut variant keeps the rows inserted before the throw
transaction_mutNoRollback(before, after, thrown) ==
    [success |-> ~thrown, rows |-> after]

transaction(before, after, thrown) ==
    [success |-> ~thrown, rows |-> IF thrown THEN before ELSE after]

\* The steps an upload has taken, in order, each with its outcome
StepCreate(ok) == IF ok THEN "create table" ELSE "create table failed"

StepLoad(ok) == IF ok THEN "load rows" ELSE "load rows failed"

StepRegister(ok) == IF ok THEN "insert metadata" ELSE "insert metadata failed"

\* upload/route.ts:120-276: an empty file is answered 400; otherwise create the
\* table, load the rows in one transaction (failAt: the row whose insert the engine
\* fails, 0 for none), insert the registry row; the first failure is thrown to the
\* catch of line 270, which answers 500. calc keeps the number of rows of the file
\* and the number of rows inserted inside the transaction
Upload ==
    /\ \E fileId \in generateId, rowCount \in 0..MaxUploadRows, ioCreate \in BOOLEAN,
          ioMetadata \in BOOLEAN :
       \E failAt \in 0..rowCount :
          LET tableName == TableName(fileId)
              inserted == IF failAt = 0 THEN rowCount ELSE failAt - 1
              transactionResult == transaction(0, inserted, failAt # 0)
              steps == IF ~ioCreate THEN <<StepCreate(FALSE)>>
                       ELSE IF ~transactionResult.success
                       THEN <<StepCreate(TRUE), StepLoad(FALSE)>>
                       ELSE <<StepCreate(TRUE), StepLoad(TRUE), StepRegister(ioMetadata)>>
              created == [n \in DOMAIN tables \cup {tableName} |->
                            IF n = tableName
                            THEN [rows |-> transactionResult.rows, cols |-> TableColumns]
                            ELSE tables[n]]
          IN  /\ calc' = [op |-> "upload", input |-> rowCount, output |-> inserted,
                          done |-> TRUE]
              /\ IF rowCount = 0
                 THEN /\ lastRequest' = Response("upload", fileId, 400, 0)
                      /\ UNCHANGED <<tables, files>>
                 ELSE /\ tables' = IF ioCreate THEN created ELSE tables
                      /\ files' = IF steps[Len(steps)] = StepRegister(TRUE)
                                  THEN files \cup {fileId} ELSE files
                      /\ lastRequest' =
                            [Response("upload", fileId,
                                      IF steps[Len(steps)] = StepRegister(TRUE)
                                      THEN 200 ELSE 500, 0)
                                EXCEPT !.steps = steps]
    /\ UNCHANGED <<globalReActState, globalReasoningCallback, enhancedReasoningCallback,
                   chat_history, lastCall, runs, delivered, pending, reader, stream>>

NextUpload ==
    \/ Upload
    \/ SaveChatHistory({"q1"}, {0})
    \/ DeleteStart
    \/ DeleteFinish

\* An empty storage
InitUpload ==
    /\ globalReActState = InitialReActState
    /\ globalReasoningCallback = None
    /\ enhancedReasoningCallback = None
    /\ files = {}
    /\ tables = [n \in {} |-> [rows |-> 0, cols |-> TableColumns]]
    /\ chat_history = <<>>
    /\ lastCall = NoCall
    /\ runs = IdleRuns
    /\ delivered = NoDelivery
    /\ lastRequest = NoRequest
    /\ pending = NoPending
    /\ Quiet

SpecUpload == InitUpload /\ [][NextUpload]_vars

-----------------------------------------------------------------------------
(* The conversion of the cells of an uploaded file to the values bound to     *)
(* the inserts of the bulk load (upload/route.ts:176-206).  A file is one     *)
(* column of cells.                                                           *)

\* The cells of uploaded files; "" is an empty cell
UploadCells ==
    {"", "1", " 2", "1.5", "a", "2024-01-01", "2024-02-15", "2024-13-45", "20240101"}

\* A column longer than the sample of type inference: the sample, then one more cell
LongUpload(cell, last) == [i \in 1..SampleSize |-> cell] \o <<last>>

\* The parsed files: a few rows, and more rows than the sample
Uploads ==
    UNION {[1..n -> UploadCells] : n \in 1..MaxUploadRows}
        \cup {LongUpload("2024-01-01", last) : last \in {"a", "2024-13-45", "2024-02-15"}}
        \cup {LongUpload("1", last) : last \in {"a", "1.5"}}

\* Not a number: the parse that found no number
NaN == None

Null == <<"null">>

\* The number of digits s begins with
RECURSIVE LeadingDigits(_)
LeadingDigits(s) ==
    IF s = <<>> \/ ~IsDigit(Head(s)) THEN 0 ELSE 1 + LeadingDigits(Tail(s))

HasSign(s) == s # <<>> /\ s[1] \in {"-", "+"}

\* parseInt(strValue, 10): an optional sign and the longest run of digits after it
parseInt(s) ==
    LET body == IF HasSign(s) THEN Tail(s) ELSE s
        n == LeadingDigits(body)
        magnitude == Number(SubSeq(body, 1, n))
    IN  IF n = 0 THEN NaN
        ELSE IF HasSign(s) /\ s[1] = "-" THEN Some(0 - magnitude) ELSE Some(magnitude)

\* parseFloat(strValue): the longest prefix that is a decimal literal, as its text
parseFloat(s) ==
    LET body == IF HasSign(s) THEN Tail(s) ELSE s
        whole == LeadingDigits(body)
        rest == SubSeq(body, whole + 1, Len(body))
        fraction == IF rest # <<>> /\ rest[1] = "." THEN LeadingDigits(Tail(rest)) ELSE 0
        length == IF fraction > 0 THEN whole + 1 + fraction ELSE whole
    IN  IF whole + fraction = 0 THEN NaN
        ELSE SubSeq(s, 1, length + (IF HasSign(s) THEN 1 ELSE 0))

\* !isNaN(new Date(strValue).getTime()): a text that is a date pattern and nothing
\* more parses as isValidDate says; a text without a digit does not parse; what else
\* parses is left to the engine
DateParses(s, compactParses, legacyParses) ==
    LET whole(G) == \E g \in G : g[1] + g[2] + g[3] + 2 = Len(s)
    IN  IF whole(YearFirst(s)) \/ whole(YearLast(s)) \/ IsCompactDate(s)
        THEN isValidDate(s, compactParses)
        ELSE (\E i \in 1..Len(s) : IsDigit(s[i])) /\ legacyParses

\* dateValue.toISOString(): the instant as UTC text; a text read as local time is
\* kept as the instant it names
toISOString(s) ==
    IF Len(s) = 10 /\ YearFirst(s) # {} /\ s[5] = "-" /\ s[8] = "-"
    THEN s \o Chars("T00:00:00.000Z")
    ELSE <<"instant of">> \o s

\* upload/route.ts:178-199: the value bound to the insert for one cell
convertValue(value, columnType, compactParses, legacyParses) ==
    LET strValue == trim(Chars(value))
    IN  IF value = "" THEN Null
        ELSE CASE columnType = "INTEGER" ->
                    IF parseInt(strValue) = NaN THEN Null
                    ELSE <<"integer", parseInt(strValue)[1]>>
               [] columnType = "REAL" ->
                    IF parseFloat(strValue) = NaN THEN Null
                    ELSE <<"real", parseFloat(strValue)>>
               [] columnType = "DATE" ->
                    IF ~DateParses(strValue, compactParses, legacyParses)
                    THEN <<"text", strValue>>
                    ELSE <<"text", toISOString(strValue)>>
               [] OTHER -> <<"text", strValue>>

\* upload/route.ts:150-154 and 176-206: the type of the column is inferred, then
\* every row is inserted with its cell converted
LoadRows ==
    /\ calc.op = "load"
    /\ ~calc.done
    /\ \E compactParses \in BOOLEAN, legacyParses \in BOOLEAN :
       \E columnType \in {inferColumnType(calc.input, compactParses)} :
          calc' = [calc EXCEPT
                      !.output =
                          [columnType |-> columnType,
                           rows |-> [i \in 1..Len(calc.input) |->
                                        convertValue(calc.input[i], columnType,
                                                     compactParses, legacyParses)]],
                      !.done = TRUE]
    /\ CalcFrame

NextLoad == LoadRows

InitLoad == InitCalc("load", Uploads)

SpecLoad == InitLoad /\ [][NextLoad]_vars

-----------------------------------------------------------------------------
(* Properties of the query tools, checked under SpecQuery.                    *)

\* The catalogue entry of a query text; its reader field says whether the statement
\* begins with the retrieval keyword
EntryOf(query) == CHOOSE e \in SqlCatalogue : e.text = query

ExecutedSql == lastCall.tool = "execute_sql"

\* C4: a query that is not a read-only retrieval (for example DELETE FROM data_x) is
\* answered with a failure result and no statement of the call reaches storage.
C4_NonSelectRejectedBeforeStorage ==
    (ExecutedSql /\ ~EntryOf(lastCall.args.query).reader)
        => /\ ~lastCall.result.success
           /\ lastCall.stmts = <<>>

C4_Witness ==
    /\ ExecutedSql
    /\ lastCall.args.query = "DELETE FROM data_x"
    /\ lastCall.args.fileId = "x"
    /\ lastCall.result.error = Some(ErrSelectOnly)
    /\ lastCall.stmts = <<>>

\* C5: every statement execute_sql hands to storage reads only the isolated table of
\* the fileId of that call.
C5_OnlyOwnTableRead ==
    ExecutedSql =>
        \A i \in 1..Len(lastCall.stmts) : \A e \in SqlCatalogue :
            Matches(e, lastCall.stmts[i].sql) =>
                \A j \in 1..Len(e.reads) : e.reads[j] = TableName(lastCall.args.fileId)

\* C6: an accepted query with no row cap of its own is executed with the cap of 1000
\* appended, and its successful result holds at most 1000 rows.
C6_UncappedQueryIsCapped ==
    (ExecutedSql /\ lastCall.result.success /\ EntryOf(lastCall.args.query).cap = None)
        => /\ lastCall.stmts[1].sql = Executable(EntryOf(lastCall.args.query)) \o AppendedCap
           /\ lastCall.result.rowCount[1] <= QueryRowCap

\* C7: a successful get_sample_data returns at most min(limit, 50) rows, the default
\* limit standing for an absent one, and so never more than 50 rows.
C7_SampleAtMostFifty ==
    (lastCall.tool = "get_sample_data" /\ lastCall.result.success)
        => LET limit == IF lastCall.args.limit = None THEN DefaultSampleLimit
                        ELSE lastCall.args.limit[1]
           IN  /\ lastCall.result.rowCount[1] <= SampleRowCap
               /\ limit >= 0 => lastCall.result.rowCount[1] <= Min(limit, SampleRowCap)

-----------------------------------------------------------------------------
(* Properties of the tracker tools, checked under SpecTracker.                *)

\* The error markers the reflection looks for
ErrorMarkers == {MarkerError, MarkerFailure, "ERROR"}

CarriesErrorMarker ==
    [results \in ResultTexts |->
        \E marker \in ErrorMarkers : includes(Chars(results), Chars(marker))]

\* C8: whenever the text given to reflect_on_results carries an error marker, the
\* result has shouldReplan = true and the tracker's replan flag is set afterwards.
C8_ErrorMarkerForcesReplan ==
    (lastCall.tool = "reflect_on_results" /\ CarriesErrorMarker[lastCall.args.results])
        => /\ lastCall.result.shouldReplan = Some(TRUE)
           /\ globalReActState.needsReplan

-----------------------------------------------------------------------------
(* Properties of the storage routes, checked under SpecStore.                 *)

\* The dataset has been deleted: its table is dropped and its registry row removed
Deleted(fileId) == fileId \notin files /\ ~TableExists(TableName(fileId))

\* C9: every get_table_schema call for a deleted dataset returns a failure result,
\* never a success result with an empty column list.
C9_SchemaOfDeletedDatasetFails ==
    [][(/\ lastCall' # lastCall
        /\ lastCall'.tool = "get_table_schema"
        /\ Deleted(lastCall'.args.fileId)) => ~lastCall'.result.success]_vars

\* C10: after a delete that reports success no turn of that dataset remains in the
\* history table, whatever became of the delete's history clear.
C10_NoTurnsAfterSuccessfulDelete ==
    (lastRequest.route = "delete" /\ lastRequest.status = 200)
        => TurnsOf(lastRequest.id) = <<>>

\* A delete reported success although turns were still stored when it removed the
\* registry row (the history clear failed, or a turn was appended after it)
C10_Witness ==
    /\ lastRequest.route = "delete"
    /\ lastRequest.status = 200
    /\ lastRequest.removed > 0
    /\ TurnsOf(lastRequest.id) = <<>>

-----------------------------------------------------------------------------
(* Properties of overlapping runs, checked under SpecRuns.                    *)

\* The run has started and has not answered yet
Running(r) == runs[r].pc \in {"agent", "tools", "answered"}

\* C1: while runs overlap, the tracker a run sees is the one its own tracker
\* operations produced: no operation of another run has altered it.
C1_TrackerChangedOnlyByOwnRun ==
    \A r \in RunIds :
        (Running(r) /\ runs[r].entry = "react") => globalReActState = runs[r].own

\* The progress messages of run r's tool calls that callback c has received
ToolMessages(c, r) ==
    SelectSeq(delivered[c], LAMBDA m : m.from = r /\ m.via = "tool")

\* C2: when every run registered its own callback, each progress message of a tool
\* call of a run is delivered to that run's callback, never to another's, and none
\* is lost because another run finished.
C2_ProgressReachesOwnCallback ==
    (\A r \in RunIds : runs[r].pc # "idle" => runs[r].callback = Some(r))
        => \A r \in RunIds :
              /\ \A c \in RunIds \ {r} : ToolMessages(c, r) = <<>>
              /\ Len(ToolMessages(r, r)) = runs[r].produced

\* The run function of r has returned
RunEnded(r) == runs[r].pc \in {"done", "aborted", "failed"}

\* The tool calls run r has made: every second superstep
ToolCalls(r) == runs[r].steps \div 2

\* Run r was given a callback and no other run has started
AloneWithCallback(r) ==
    /\ runs[r].pc # "idle"
    /\ runs[r].callback = Some(r)
    /\ \A q \in RunIds \ {r} : runs[q].pc = "idle"

\* C26: during a run with a callback, the callback receives a message at run start,
\* before each re-invocation of the model, before and after each tool call, and at run
\* end: the start message comes first, a run that answered after k tool calls has
\* delivered 2 + 3k messages or more, and nothing is delivered after the run returned.
C26_ProgressAnnouncesEveryEvent ==
    /\ [](\A r \in RunIds :
            AloneWithCallback(r) =>
                /\ delivered[r] # <<>>
                /\ delivered[r][1] = [from |-> r, via |-> "direct"]
                /\ runs[r].pc = "done" => Len(delivered[r]) >= 2 + 3 * ToolCalls(r))
    /\ [][\A r \in RunIds : RunEnded(r) => delivered'[r] = delivered[r]]_vars

-----------------------------------------------------------------------------
(* Properties of the orchestration loop, checked under SpecLoop.              *)

\* C3: a run whose model asks for another tool call on every invocation is aborted
\* exactly when the cycle limit of 50 is reached, whichever entry point ran it.
C3_AbortsExactlyAtCycleLimit ==
    \A r \in RunIds :
        /\ runs[r].steps <= RecursionLimit
        /\ runs[r].pc = "aborted" => runs[r].steps = RecursionLimit

C11_NoTurnOfRemovedDataset ==
    \A id \in DatasetIds : (id \notin files /\ pending[id] = <<>>) => TurnsOf(id) = <<>>

\* A chat run that began before the delete attempted its append after the delete
C11_Witness ==
    /\ lastRequest.route = "chat"
    /\ lastRequest.id \notin files
    /\ pending[lastRequest.id] = <<>>
    /\ TurnsOf(lastRequest.id) = <<>>


\* C12: when a client has paged through the fixed history of a dataset to the page that
\* says there is no more, the pages it read, each newest-first, one after the other, are
\* the turns of getAllChatHistory in reverse order, turns of equal timestamp included.
C12_PagesAreAllReversed ==
    reader.pc = "done" =>
        reader.read = Reverse(getAllChatHistory(reader.fileId, reader.ascTies))

\* The last min(limit, n) of a sequence of n
LastOf(s, limit) == SubSeq(s, Len(s) - Min(limit, Len(s)) + 1, Len(s))

\* C24: for every history and context limit L >= 1, getRecentChatHistory returns the
\* last min(L, n) turns of getAllChatHistory in the same ascending order, turns of
\* equal timestamp included; never more than L turns, never a turn of another dataset.
C24_RecentIsTailOfAll ==
    reader.pc = "context" =>
        /\ reader.read = LastOf(getAllChatHistory(reader.fileId, reader.ascTies),
                                reader.limit)
        /\ Len(reader.read) <= reader.limit
        /\ \A i \in 1..Len(reader.read) : reader.read[i].fileId = reader.fileId

\* C13: a query tool call made while the registered callback raises returns a result, and
\* leaves an error count, that the same call could have produced with a callback that
\* returns normally.
C13_CallbackFailureSwallowed ==
    [][(lastCall' # lastCall /\ lastCall'.tool = "execute_sql") =>
          \E reasoning \in OptReasonings, io \in BOOLEAN :
             LET quiet == executeSqlTool(globalReActState, globalReasoningCallback,
                                         lastCall'.args.query, lastCall'.args.fileId,
                                         reasoning, FALSE, io)
             IN  /\ lastCall'.result = quiet.result
                 /\ globalReActState'.errorCount = quiet.state.errorCount]_vars

\* C14: a run that ended in its catch block (cycle limit, dataset lookup or model
\* failure) has handed its caller a narrative that reports plan size, completed steps
\* and error count, and has not raised.
C14_AbortReturnsProgressNarrative ==
    \A r \in RunIds :
        runs[r].pc \in {"aborted", "failed"} =>
            /\ runs[r].outcome.kind # "raised"
            /\ runs[r].outcome.progress # None

-----------------------------------------------------------------------------
(* Properties of the chat stream, checked under SpecChat.                     *)

FrameTypes(s) == [i \in 1..Len(s.frames) |-> s.frames[i].type]

Positions(seq, x) == {i \in 1..Len(seq) : seq[i] = x}

\* C16: in a stream whose answer was computed and could be sent, the response frame is
\* emitted before the history append is attempted, the stream is closed right after
\* the attempt whether it succeeded or failed, and no error frame takes the place of
\* or follows the answer.
C16_AnswerBeforeAppendThenClose ==
    (stream.events # <<>>) =>
        /\ stream.events \in {<<"response", "append", "close">>,
                               <<"response", "append failed", "close">>}
        /\ stream.pc = "closed"
        /\ Positions(FrameTypes(stream), "response") # {}
        /\ Positions(FrameTypes(stream), "error") = {}

\* The history append of a chat turn failed after its answer was sent
C16_Witness ==
    /\ stream.events = <<"response", "append failed", "close">>
    /\ stream.frames[Len(stream.frames)].type = "response"
    /\ stream.pc = "closed"

\* C17: the frames of a chat stream are reasoning and response frames only, at most
\* one response frame and nothing after it; a stream the server closed holds exactly
\* one response frame, its last frame.
C17_OneResponseFrameLast ==
    LET types == FrameTypes(stream)
    IN  /\ \A i \in 1..Len(types) : types[i] \in {"reasoning", "response"}
        /\ \A i \in 1..Len(types) : types[i] = "response" => i = Len(types)
        /\ stream.pc = "closed" =>
              /\ types # <<>>
              /\ types[Len(types)] = "response"

\* A stream with reasoning frames and then its response frame, closed
C17_Witness ==
    /\ stream.pc = "closed"
    /\ FrameTypes(stream) = <<"reasoning", "reasoning", "response">>

-----------------------------------------------------------------------------
(* Properties of the delete route, checked under SpecStore.                   *)

Clears == {StepClear(ok) : ok \in BOOLEAN}

\* The answer of a delete request that got past its lookup
DeleteAnswered == lastRequest.route = "delete" /\ lastRequest.steps # <<>>

\* The delete succeeds exactly when the drop and the metadata removal did
FatalSteps ==
    lastRequest.status = 200 <=>
        /\ StepDrop(TRUE) \in Range(lastRequest.steps)
        /\ StepMetadata(TRUE) \in Range(lastRequest.steps)

\* C20, as stated: a delete drops the table, then clears the history, then removes the
\* metadata; a failed clear does not stop it, a failed drop or metadata removal makes
\* it report failure.
C20_DropThenClearThenMetadata ==
    DeleteAnswered =>
        /\ \/ lastRequest.steps = <<StepDrop(FALSE)>>
           \/ \E c \in Clears, ok \in BOOLEAN :
                 lastRequest.steps = <<StepDrop(TRUE), c, StepMetadata(ok)>>
        /\ FatalSteps

\* C20, amended: a delete clears the history, then drops the table, then removes the
\* metadata; a failed clear does not stop it, a failed drop or metadata removal makes
\* it report failure.
C20_ClearThenDropThenMetadata ==
    DeleteAnswered =>
        /\ \E c \in Clears :
              \/ lastRequest.steps = <<c, StepDrop(FALSE)>>
              \/ \E ok \in BOOLEAN :
                    lastRequest.steps = <<c, StepDrop(TRUE), StepMetadata(ok)>>
        /\ FatalSteps

\* A delete whose history clear failed went on and succeeded
C20_Witness ==
    /\ lastRequest.route = "delete"
    /\ lastRequest.steps = <<StepClear(FALSE), StepDrop(TRUE), StepMetadata(TRUE)>>
    /\ lastRequest.status = 200
    /\ lastRequest.id \notin files

-----------------------------------------------------------------------------
(* Properties of ingestion, checked under SpecColumns and SpecTypes.          *)

Normalized == calc.op = "normalizeColumnNames" /\ calc.done

\* The lower-case form of the names given to the columns before position i
EarlierNames(i) == {Str(toLowerCase(Chars(calc.output[j]))) : j \in 1..(i - 1)}

\* C18: every normalized name is non-empty, does not start with a digit, is not a
\* keyword the storage engine reserves, differs without regard to case from the name
\* of every other column, and carries, where its base name was taken, the smallest
\* integer suffix that was unused.
C18_NormalizedNamesAreSafeAndUnique ==
    Normalized =>
        /\ Len(calc.output) = Len(calc.input)
        /\ \A i \in 1..Len(calc.output) :
              LET name == Chars(calc.output[i])
                  base == baseColumn(Chars(calc.input[i]), i - 1)
                  taken(n) == Str(toLowerCase(n)) \in EarlierNames(i)
              IN  /\ name # <<>>
                  /\ ~IsDigit(name[1])
                  /\ Str(toLowerCase(name)) \notin StorageKeywords
                  /\ ~taken(name)
                  /\ \/ name = base
                     \/ /\ taken(base)
                        /\ \E k \in 1..i :
                              /\ name = withCounter(base, k)
                              /\ \A j \in 1..(k - 1) : taken(withCounter(base, j))

Inferred == calc.op = "inferColumnType" /\ calc.done

\* The first up to 100 non-empty cells of the column, trimmed
Sampled ==
    LET filled == SelectSeq(calc.input, LAMBDA v : v # "")
    IN  [i \in 1..Min(SampleSize, Len(filled)) |-> trim(Chars(filled[i]))]

Every(s, P(_)) == \A i \in 1..Len(s) : P(s[i])

\* C19: the inferred type of a column is INTEGER if every sampled value is an integer
\* text, else REAL if every one is a numeric text, else DATE if every one has a date
\* pattern and parses, else TEXT, and TEXT for a column with no value; the four
\* examples of the specification come out as integer, real, date and text.
C19_TypeByPriority ==
    Inferred =>
        /\ Sampled = <<>> => calc.output = "TEXT"
        /\ Sampled # <<>> /\ Every(Sampled, IsIntegerText) => calc.output = "INTEGER"
        /\ Sampled # <<>> /\ ~Every(Sampled, IsIntegerText) /\ Every(Sampled, IsNumericText)
              => calc.output = "REAL"
        /\ Sampled # <<>> /\ ~Every(Sampled, IsNumericText) =>
              /\ calc.output \in {"DATE", "TEXT"}
              /\ calc.output = "DATE" =>
                    \A i \in 1..Len(Sampled) :
                        hasDatePattern(Sampled[i])
                            /\ \E compactParses \in BOOLEAN :
                                   isValidDate(Sampled[i], compactParses)
              /\ calc.output = "TEXT" =>
                    \E i \in 1..Len(Sampled) :
                        ~hasDatePattern(Sampled[i])
                            \/ \E compactParses \in BOOLEAN :
                                   ~isValidDate(Sampled[i], compactParses)
        /\ calc.input = <<"1", "2", "3">> => calc.output = "INTEGER"
        /\ calc.input = <<"1.5", "2">> => calc.output = "REAL"
        /\ calc.input = <<"2024-01-01", "2024-02-15">> => calc.output = "DATE"
        /\ calc.input = <<"a", "1">> => calc.output = "TEXT"

\* A column of one hundred integers and then a word was inferred from its sample
C19_Witness ==
    /\ Inferred
    /\ calc.input = LongColumn(SampleSize, TRUE)
    /\ calc.output = "INTEGER"

-----------------------------------------------------------------------------
(* Properties of execute_sql on an engine failure, checked under SpecQuery.   *)

\* The last call was an execute_sql whose statement the storage engine failed
EngineFailed ==
    /\ ExecutedSql
    /\ lastCall.stmts # <<>>
    /\ ~lastCall.result.success

\* C23: an execute_sql call that fails in the storage engine raises the error count by
\* exactly one and returns a failure whose shouldReplan is (error count > 2 or replan
\* flag) after that increment; from a fresh tracker the first and second such failures
\* return shouldReplan = false and the third returns true.
C23_EngineFailureCountsOnce ==
    [][(EngineFailed' /\ globalReActState' # globalReActState) =>
          /\ globalReActState'.errorCount = globalReActState.errorCount + 1
          /\ lastCall'.result.shouldReplan = Some(shouldReplan(globalReActState'))]_vars

-----------------------------------------------------------------------------
(* Properties of the tracker and its tools, checked under SpecTracker.        *)

Plans == {PlanSteps(question) : question \in Questions} \cup {<<>>}

\* setPlan on the tracker as it is now
SetPlanResets ==
    \A steps \in Plans :
        LET st == setPlan(globalReActState, steps)
        IN  /\ st.currentPlan = steps
            /\ st.completedActions = <<>>
            /\ st.observations = <<>>
            /\ ~st.needsReplan
            /\ st.errorCount = 0
            /\ st.apiCallCount = globalReActState.apiCallCount
            /\ st.currentThought = globalReActState.currentThought

\* C22: setPlan(steps) makes the plan equal to steps, empties the completed steps and
\* the observations, clears the replan flag, sets the error count to 0 and leaves the
\* call count and the rationale alone; hence right after any plan_actions call
\* shouldReplan() is false and progress() is 0.
C22_PlanCallResetsTracker ==
    /\ SetPlanResets
    /\ lastCall.tool = "plan_actions" =>
          /\ ~shouldReplan(globalReActState)
          /\ getProgress(globalReActState) = 0

\* C28: after any sequence of tracker operations and tool calls the completed steps
\* are a subset of the plan, so progress() is within 0..100 and, for a non-empty plan,
\* progress() is 100 exactly when remaining() is empty.
C28_CompletedWithinPlan ==
    LET st == globalReActState
    IN  /\ Range(st.completedActions) \subseteq Range(st.currentPlan)
        /\ getProgress(st) \in 0..100
        /\ st.currentPlan # <<>> =>
              (getProgress(st) = 100 <=> getRemainingPlan(st) = <<>>)

-----------------------------------------------------------------------------
(* Properties of the upload route, checked under SpecUpload.                  *)

\* The answer of an upload that got as far as storage
UploadAnswered == lastRequest.route = "upload" /\ lastRequest.steps # <<>>

UploadedTable == tables[TableName(lastRequest.id)]

\* C21: when the engine fails the insert of a row during the bulk load, the load is
\* rolled back and the upload answers failure: the table holds none of the upload's
\* rows and the dataset has no registry entry; and an upload that wrote the registry
\* entry has all rows of the file in the table.
C21_FailedLoadRolledBack ==
    UploadAnswered =>
        /\ StepLoad(FALSE) \in Range(lastRequest.steps) =>
              /\ lastRequest.status = 500
              /\ UploadedTable.rows = 0
              /\ lastRequest.id \notin files
        /\ StepRegister(TRUE) \in Range(lastRequest.steps) =>
              /\ StepLoad(TRUE) \in Range(lastRequest.steps)
              /\ UploadedTable.rows = calc.input
        /\ lastRequest.id \in files <=> StepRegister(TRUE) \in Range(lastRequest.steps)

\* A load failed after rows had been inserted
C21_Witness ==
    /\ UploadAnswered
    /\ StepLoad(FALSE) \in Range(lastRequest.steps)
    /\ calc.input = MaxUploadRows
    /\ calc.output >= 1

\* C29: whenever no upload and no delete is in progress, isolated tables and registry
\* entries correspond one to one, also after uploads and deletes that failed part-way.
C29_TablesMatchRegistry ==
    pending = NoPending =>
        \A id \in DatasetIds : TableExists(TableName(id)) <=> id \in files

-----------------------------------------------------------------------------
(* Properties of the bulk load, checked under SpecLoad.                       *)

\* The file has been loaded
RowsLoaded == calc.op = "load" /\ calc.done

\* The text is read as a value of the type: as a number by the parser the load uses,
\* as a date by some engine
ParsesAs(columnType, s) ==
    CASE columnType = "INTEGER" -> parseInt(s) # NaN
      [] columnType = "REAL" -> parseFloat(s) # NaN
      [] columnType = "DATE" ->
            \E compactParses \in BOOLEAN, legacyParses \in BOOLEAN :
                DateParses(s, compactParses, legacyParses)
      [] OTHER -> TRUE

\* C25: in the bulk load a non-empty value that does not parse as the inferred type of
\* its column (integer, real or date) is stored as null and its row is still inserted;
\* a value of a date column that is no valid date is stored as null, not as its text.
C25_UnparsableStoredAsNull ==
    RowsLoaded =>
        /\ Len(calc.output.rows) = Len(calc.input)
        /\ \A i \in 1..Len(calc.input) :
              (/\ calc.input[i] # ""
               /\ ~ParsesAs(calc.output.columnType, trim(Chars(calc.input[i]))))
                  => calc.output.rows[i] = Null


-----------------------------------------------------------------------------
(* Properties of the history route, checked under SpecEndpoint.               *)

\* The request the chat interface sends when it opens a dataset
\* (ChatInterface.tsx:203): page=1&limit=10
OpeningRequest ==
    /\ reader.pc = "answered"
    /\ reader.request = [all |-> FALSE, page |-> Some(1), limit |-> Some(DefaultPageSize)]

\* C27: the history route answers a request for page 1 with page size 10 with the 10
\* most recent turns, ascending, with totalCount and a hasMore flag that is true exactly
\* when more than 10 turns are stored: the result of getChatHistoryPaginated(id, 1, 10).
C27_OpeningRequestIsFirstPage ==
    OpeningRequest =>
        \E ties \in TieOrders :
            LET response == reader.response[1]
                stored == getAllChatHistory(reader.fileId, ties)
                page == getChatHistoryPaginated(reader.fileId, 1, DefaultPageSize, ties)
            IN  /\ response.history = LastOf(stored, DefaultPageSize)
                /\ response.history = page.history
                /\ response.totalCount = Len(stored)
                /\ response.hasMore = Some(Len(stored) > DefaultPageSize)
                /\ response.hasMore = Some(page.hasMore)

-----------------------------------------------------------------------------
(* Properties of the replan flag, checked under SpecReplan.                   *)

\* C30: once a tool has set the replan flag it stays set across every later
\* reflect_on_results, track_progress and query tool call until the next plan; no tool
\* call other than plan_actions clears it, and shouldReplan() never goes from true back
\* to false without a new plan.
C30_ReplanFlagPersists ==
    [][lastCall'.tool # "plan_actions" =>
          /\ globalReActState.needsReplan => globalReActState'.needsReplan
          /\ shouldReplan(globalReActState) => shouldReplan(globalReActState')]_vars

\* A track_progress call on a result without an error marker, with no error counted,
\* left the flag set: the flag had been set before
C30_Witness ==
    /\ lastCall.tool = "track_progress"
    /\ lastCall.args.result = "done"
    /\ lastCall.result.success
    /\ globalReActState.errorCount = 0
    /\ globalReActState.needsReplan
=============================================================================
